---- MODULE Spec2Model ----
(***************************************************************************)
(* AskMira: the offline indexers (Scripts/ingest_to_pinecone.py,           *)
(* Scripts/convert_excel_to_txt.py), the embedder they share with the      *)
(* chatbot, the S3 document converter and the authentication service.      *)
(*                                                                         *)
(* Strings the code takes apart (S3 keys, chunk ids) are sequences of      *)
(* tokens: the separator characters "/", "_" and "." are tokens of their   *)
(* own and every maximal run of other characters is one token, so that     *)
(* str.replace('/', '_'), str.endswith and str.split act on them exactly   *)
(* as they act on the characters.                                          *)
(***************************************************************************)
EXTENDS Integers, Sequences, FiniteSets, TLC

VARIABLES
    prog,               \* which script runs: "ingest" | "excel"
    pc,                 \* the script's position
    run,                \* how many times the script has been launched
    faults,             \* upstream failures injected so far
    kpos,               \* ingest: position in keys of the key being processed
    metadata,           \* metadata of the document being indexed
    chunks,             \* chunks of the document being indexed
    i,                  \* enumerate(chunks): index of the next chunk
    vectors_to_upsert,  \* the pending batch
    result,             \* the function's return value ("none" until it returns)
    store,              \* the Pinecone index: id -> [values, metadata]
    upsertLog,          \* history: every index.upsert call of this run
    embedOk,            \* history: <<kpos, i>> embedded successfully in this run
    embedFail,          \* history: <<kpos, i>> whose create_embedding raised in this run
    fetched,            \* history: kpos -> number of chunks split, for fetched documents
    getFailed,          \* history: kpos whose get_s3_object returned None in this run
    idsAfterFirst,      \* history: ids in the store when the first run returned
    text_content,       \* excel: the text handed to process_and_index_text
    e_impl,             \* embedder: which copy of create_embedding is called
    e_response,         \* embedder: what openai.Embedding.create answers
    e_pc,               \* embedder: "idle" | "call" | "returned"
    e_out,              \* embedder: what create_embedding raised or returned
    c_listing,          \* converter: the keys the paginator lists
    c_pos,              \* converter: position in the listing
    c_pc,               \* converter: "idle" | "loop" | "done" | "crashed"
    c_log,              \* converter history: what became of each key reached
    c_puts,             \* converter: the put_object calls made
    a_table,            \* auth: the USERS table exists
    a_users,            \* auth: the rows of USERS, in insertion order
    a_reqs,             \* auth: the requests received, each with its position
    a_now,              \* auth: the service's clock, in minutes
    b_index,            \* bot: the entries the vector index holds
    b_pc,               \* bot: position in show_bot / get_rag_response
    b_asked,            \* bot: questions typed so far
    b_calls,            \* bot: upstream calls made for the current question
    b_vector,           \* bot: the query vector
    b_results,          \* bot: results.matches of the last index.query
    b_context,          \* bot: the context string built by format_context
    b_out,              \* bot: what the response function gave show_bot
    b_messages,         \* bot: st.session_state.messages
    m_segs,             \* metadata: the path segments of the key looked at
    m_key,              \* metadata: the key
    m_pc,               \* metadata: position
    m_meta,             \* metadata: what extract_metadata returned
    m_entry,            \* metadata: an index entry built for the key
    s_workbook,         \* sheets: the workbook being extracted
    s_impl,             \* sheets: which script extracts it
    s_pc,               \* sheets: position
    s_text,             \* sheets: what the extraction gave
    f_retries,          \* scraper: the retries argument of fetch_soup
    f_attempt,          \* scraper: the loop variable attempt
    f_pc,               \* scraper: position in fetch_soup
    f_log,              \* scraper: the HTTP attempts made, with their outcomes
    f_out,              \* scraper: what fetch_soup returned or raised
    x_pc,               \* excel main: position in main
    x_temp,             \* excel main: whether the temporary file exists
    x_log,              \* excel main: the steps run, with their outcomes
    x_exit,             \* excel main: how main was left
    d_bucket,           \* chunk ids: the keys in the bucket
    d_made,             \* chunk ids: the (key, chunk index) pairs ingested
    d_store,            \* chunk ids: the index, id to entry
    listings,           \* scraper main: the country entries of the listing page
    k_pc,               \* scraper main: position in main
    k_log,              \* scraper main: what happened to each country, in loop order
    success_count,      \* scraper main: success_count
    error_count,        \* scraper main: error_count
    logged_in,          \* front end: st.session_state['logged_in']
    access_token,       \* front end: st.session_state['access_token'], None as <<>>
    auth_username,      \* front end: st.session_state['auth_username'], None as <<>>
    u_page,             \* front end: the page the last script run drew
    u_log               \* front end: the interactions so far, with the state before and after

ixvars == <<prog, pc, run, faults, kpos, metadata, chunks, i, vectors_to_upsert,
            result, store, upsertLog, embedOk, embedFail, fetched, getFailed,
            idsAfterFirst, text_content>>

embvars == <<e_impl, e_response, e_pc, e_out>>

convars == <<c_listing, c_pos, c_pc, c_log, c_puts>>

authvars == <<a_table, a_users, a_reqs, a_now>>

botvars == <<b_index, b_pc, b_asked, b_calls, b_vector, b_results, b_context,
             b_out, b_messages>>

metavars == <<m_segs, m_key, m_pc, m_meta, m_entry>>

sheetvars == <<s_workbook, s_impl, s_pc, s_text>>

fetchvars == <<f_retries, f_attempt, f_pc, f_log, f_out>>

mainvars == <<x_pc, x_temp, x_log, x_exit>>

idvars == <<d_bucket, d_made, d_store>>

scrapevars == <<listings, k_pc, k_log, success_count, error_count>>

uivars == <<logged_in, access_token, auth_username, u_page, u_log>>

vars == <<ixvars, embvars, convars, authvars, botvars, metavars, sheetvars, fetchvars, mainvars, idvars, scrapevars, uivars>>

---------------------------------------------------------------------------
(* Bounds of the model *)

\* upstream failures (S3 get, embedding, upsert) injected over all runs
MaxFaults == 1
\* launches of the same script over the same keys
MaxRuns == 2
\* chunks the splitter yields for the three text documents of the listing
ChunksA == 60
ChunksB == 40
ChunksC == 1
\* chunks of the converted spreadsheet text
ChunksX == 3

---------------------------------------------------------------------------
(* Program constants *)

batch_size == 100
D == 1024
TextLimit == 1000

---------------------------------------------------------------------------
(* String helpers on token sequences *)

Min(a, b) == IF a < b THEN a ELSE b

\* s[:n]
Take(s, n) == SubSeq(s, 1, Min(n, Len(s)))

\* s.endswith(suf)
EndsWith(s, suf) ==
    /\ Len(s) >= Len(suf)
    /\ SubSeq(s, Len(s) - Len(suf) + 1, Len(s)) = suf

\* s.startswith(pre)
StartsWith(s, pre) ==
    /\ Len(s) >= Len(pre)
    /\ SubSeq(s, 1, Len(pre)) = pre

\* s.replace(a, b) for single characters a, b
ReplaceChar(s, a, b) == [j \in 1..Len(s) |-> IF s[j] = a THEN b ELSE s[j]]

\* s.split(sep)
RECURSIVE Split(_, _)
Split(s, sep) ==
    IF \E j \in 1..Len(s) : s[j] = sep
    THEN LET j == CHOOSE x \in 1..Len(s) :
                      s[x] = sep /\ \A y \in 1..(x - 1) : s[y] # sep
         IN  <<SubSeq(s, 1, j - 1)>> \o Split(SubSeq(s, j + 1, Len(s)), sep)
    ELSE <<s>>

\* s.replace(sub, '') for a two-token sub
RECURSIVE RemoveSub(_, _)
RemoveSub(s, sub) ==
    IF Len(s) < Len(sub) THEN s
    ELSE IF SubSeq(s, 1, Len(sub)) = sub
         THEN RemoveSub(SubSeq(s, Len(sub) + 1, Len(s)), sub)
         ELSE <<s[1]>> \o RemoveSub(Tail(s), sub)

TxtSuffix == <<".", "txt">>

---------------------------------------------------------------------------
(* The listing main() passes to process_and_upsert, and the documents *)

KeyFolder == <<"aacrao", "/">>
KeyA == <<"aacrao", "/", "AFRICA", "/", "Algeria", ".", "txt">>
KeyB == <<"aacrao", "/", "ASIA", "/", "Nepal", ".", "txt">>
KeyPdf == <<"aacrao", "/", "ASIA", "/", "Nepal", ".", "pdf">>
KeyC == <<"FCE Regulations TXT", "/", "FCE Equivalency", ".", "txt">>
KeyXlsx == <<"FCE Regulations", "/", "FCE Equivalency", ".", "xlsx">>
\* an object whose body is empty (the code's `if not content`)
KeyEmpty == <<"aacrao", "/", "AFRICA", "/", "Empty", ".", "txt">>

\* all_keys: the listings of 'aacrao/', 'FCE Regulations TXT/' and
\* 'FCE Regulations/', in that order
keys == <<KeyFolder, KeyA, KeyEmpty, KeyPdf, KeyB, KeyC, KeyXlsx>>

ObjectEmpty(key) == key = KeyEmpty

NChunks(key) ==
    CASE key = KeyA -> ChunksA
      [] key = KeyB -> ChunksB
      [] key = KeyC -> ChunksC
      [] OTHER -> 0

DocName(key) == IF Len(key) >= 3 THEN key[Len(key) - 2] ELSE "blob"

\* text_splitter.split_text(content) of the object at key: the splitter is a
\* library; a text is modelled by the chunks it is cut into, chunk j of
\* document d being the two-token string <<d, j>>
DocChunks(key) == [j \in 1..NChunks(key) |-> <<DocName(key), ToString(j)>>]

\* the text excel_to_text produced, as the chunks the splitter cuts it into
TextChunks(n) == [j \in 1..n |-> <<"FCE Equivalency", ToString(j)>>]

text_key == KeyC

---------------------------------------------------------------------------
(* The embedder *)

\* what openai.Embedding.create answers: the call raises ("error"), the
\* response lacks data[0].embedding ("malformed"), or it carries a vector
Response(kind, embedding) == [kind |-> kind, embedding |-> embedding]

RECURSIVE SumSq(_, _, _)
SumSq(v, lo, hi) ==
    IF lo > hi THEN 0
    ELSE IF lo = hi THEN v[lo] * v[lo]
    ELSE LET mid == (lo + hi) \div 2
         IN  SumSq(v, lo, mid) + SumSq(v, mid + 1, hi)

\* np.linalg.norm(v), kept as its square: the norm is sqrt(NormSq(v))
NormSq(v) == SumSq(v, 1, Len(v))

\* float(val / norm) with norm a numpy float64: the quotient val/sqrt(nsq) is
\* kept as the pair <<val, nsq>>. numpy's scalar division by 0.0 raises
\* nothing: it yields nan (0/0) or inf (x/0), the pairs with nsq = 0.
Quotient(val, nsq) == <<val, nsq>>

IsFinite(c) == c[2] # 0

Raised == [raised |-> TRUE, vector |-> <<>>]

Returned(v) == [raised |-> FALSE, vector |-> v]

\* ingest_to_pinecone.create_embedding: any exception is logged and re-raised
create_embedding(response) ==
    IF response.kind # "ok" THEN Raised
    ELSE LET full_vector == response.embedding
             resized_vector == Take(full_vector, D)
             norm == NormSq(resized_vector)
             normalized_vector == [j \in 1..Len(resized_vector) |->
                                      Quotient(resized_vector[j], norm)]
         IN  Returned(normalized_vector)

\* convert_excel_to_txt.create_embedding
create_embedding_excel(response) ==
    IF response.kind # "ok" THEN Raised
    ELSE LET full_vector == response.embedding
             resized_vector == Take(full_vector, D)
             norm == NormSq(resized_vector)
         IN  Returned([j \in 1..Len(resized_vector) |->
                          Quotient(resized_vector[j], norm)])

\* a query embedder that truncates but does not normalise
create_embedding_bot_raw(response) ==
    IF response.kind # "ok" THEN Raised
    ELSE Returned([j \in 1..Min(Len(response.embedding), D) |->
                      Quotient(response.embedding[j], 1)])

\* AskMirabot.create_embedding
create_embedding_bot(response) ==
    IF response.kind # "ok" THEN Raised
    ELSE LET full_vector == response.embedding
             resized_vector == Take(full_vector, D)
             norm == NormSq(resized_vector)
         IN  Returned([j \in 1..Len(resized_vector) |->
                          Quotient(resized_vector[j], norm)])

\* no create_embedding call is being looked at on its own
EmbedIdle ==
    /\ e_impl = "none"
    /\ e_response = Response("error", <<>>)
    /\ e_pc = "idle"
    /\ e_out = Raised

\* what the embedding service answers the indexers in this model
IndexerResponses == {Response("error", <<>>), Response("ok", <<3, 4>>)}

---------------------------------------------------------------------------
(* convert_s3_docs_to_txt.py: strings and extraction *)

\* str.lower() of one token, for the tokens of the keys below
LowerToken(t) ==
    CASE t = "PDF" -> "pdf"
      [] t = "FCE Regulations" -> "fce regulations"
      [] t = "FCE Equivalency" -> "fce equivalency"
      [] t = "Handbook" -> "handbook"
      [] t = "Policy" -> "policy"
      [] t = "README" -> "readme"
      [] OTHER -> t

\* s.lower()
Lower(s) == [j \in 1..Len(s) |-> LowerToken(s[j])]

\* the position of the last sep in s, 0 when there is none
LastIndex(s, sep) ==
    IF \E j \in 1..Len(s) : s[j] = sep
    THEN CHOOSE j \in 1..Len(s) :
             s[j] = sep /\ \A y \in (j + 1)..Len(s) : s[y] # sep
    ELSE 0

\* s.rsplit(sep, 1)[-1]
RSplitLast(s, sep) == SubSeq(s, LastIndex(s, sep) + 1, Len(s))

\* s.rsplit(sep, 1)[0]
RSplitFirst(s, sep) ==
    IF LastIndex(s, sep) = 0 THEN s ELSE SubSeq(s, 1, LastIndex(s, sep) - 1)

\* os.path.basename(key)
Basename(key) == SubSeq(key, LastIndex(key, "/") + 1, Len(key))

\* s.rstrip(ch)
RECURSIVE RStrip(_, _)
RStrip(s, ch) ==
    IF Len(s) > 0 /\ s[Len(s)] = ch THEN RStrip(SubSeq(s, 1, Len(s) - 1), ch)
    ELSE s

\* sep.join(parts)
RECURSIVE Join(_, _)
Join(parts, sep) ==
    IF Len(parts) = 0 THEN <<>>
    ELSE IF Len(parts) = 1 THEN <<parts[1]>>
    ELSE <<parts[1], sep>> \o Join(Tail(parts), sep)

\* the pages of a PDF object, as page.extract_text() gives them ("" or
\* None for a page without text)
PdfPages(key) == <<"page 1 of " \o key[Len(key) - 2], "", "page 3">>

\* the body docx2txt.process finds
DocxBody(key) == "body of " \o key[Len(key) - 2]

\* a sheet as pandas reads it: the header row gives the columns, the other
\* rows the data; an empty cell is read as NaN
Sheet(name, columns, rows) == [name |-> name, columns |-> columns, rows |-> rows]

NaN == "NaN"

\* the sheets of the workbook stored under a key
Sheets(key) ==
    <<Sheet("Grades", <<"grade", "us">>, <<(<<"A", "4.0">>), (<<"B", NaN>>)>>),
      Sheet("Notes", <<"note", "year">>, <<(<<"n1", "2020">>)>>)>>

\* pd.read_excel(data, engine='openpyxl'): sheet_name defaults to 0, the
\* first sheet
read_excel(workbook) == workbook[1]

\* one line of df.to_csv(index=False): NaN is written as the empty string
CsvLine(cells) ==
    Join([j \in 1..Len(cells) |-> IF cells[j] = NaN THEN "" ELSE cells[j]], ",")
        \o <<"\n">>

RECURSIVE CsvLines(_)
CsvLines(rows) ==
    IF rows = <<>> THEN <<>> ELSE CsvLine(rows[1]) \o CsvLines(Tail(rows))

\* df.to_csv(index=False)
to_csv(df) == CsvLine(df.columns) \o CsvLines(df.rows)

HasText(page) == page # ""

\* what extract_text raised or returned; none is the None it returns for a
\* type it does not handle
Extracted(raised, none, text) == [raised |-> raised, none |-> none, text |-> text]

\* an unsupported type treated as an error
UnsupportedRaises == Extracted(TRUE, FALSE, <<>>)

\* `else: return None` (lines 52-54)
UnsupportedResult == Extracted(FALSE, TRUE, <<>>)

\* extract_text(bucket, key, s3); got: s3.get_object succeeded, parsed: the
\* library could read the document
extract_text(key, got, parsed) ==
    LET ext == RSplitLast(Lower(key), ".")
    IN  IF ~got THEN Extracted(TRUE, FALSE, <<>>)
        ELSE IF ext = <<"pdf">>
        THEN IF parsed
             THEN Extracted(FALSE, FALSE,
                            Join(SelectSeq(PdfPages(key), HasText), "\n\n"))
             ELSE Extracted(TRUE, FALSE, <<>>)
        ELSE IF ext \in {<<"doc">>, <<"docx">>}
        THEN IF parsed
             THEN Extracted(FALSE, FALSE, <<DocxBody(key)>>)
             ELSE Extracted(TRUE, FALSE, <<>>)
        ELSE IF ext \in {<<"xls">>, <<"xlsx">>}
        THEN IF parsed
             THEN Extracted(FALSE, FALSE, to_csv(read_excel(Sheets(key))))
             ELSE Extracted(TRUE, FALSE, <<>>)
        ELSE UnsupportedResult

\* args.output_prefix
output_prefix == <<"FCE Regulations TXT", "/">>

\* the destination key (lines 92-93)
OutKey(key) ==
    RStrip(output_prefix, "/") \o <<"/">>
        \o RSplitFirst(Basename(key), ".") \o <<".", "txt">>

ConvertIdle ==
    /\ c_listing = <<>>
    /\ c_pos = 0
    /\ c_pc = "idle"
    /\ c_log = <<>>
    /\ c_puts = <<>>

---------------------------------------------------------------------------
(* FastAPI/jwtauth.py: the USERS table *)

SECRET_KEY == "secret"

\* hmac.new(SECRET_KEY, password, sha256).hexdigest(), as the term it is
hash_password(password) == <<"hmac-sha256", SECRET_KEY, password>>

UserRow(username, email, pw_hash) ==
    [USERNAME |-> username, EMAIL |-> email, HASHED_PASSWORD |-> pw_hash]

\* a duplicate check that looks at the e-mail address
UserExistsByEmail(rows, username) ==
    \E j \in 1..Len(rows) : rows[j].EMAIL = username

\* SELECT 1 FROM USERS WHERE USERNAME = %s: fetchone() is not None
UserExists(rows, username) ==
    \E j \in 1..Len(rows) : rows[j].USERNAME = username

\* no request has been received; the table is not yet created
AuthIdle ==
    /\ a_table = FALSE
    /\ a_users = <<>>
    /\ a_reqs = <<>>
    /\ a_now = 0

---------------------------------------------------------------------------
(* Streamlit/AskMirabot.py: retrieval helpers *)

\* def query_pinecone(query, top_k=5)
top_k == 5

\* a match as index.query returns it with include_metadata=True
Match(id, score, md) == [id |-> id, score |-> score, metadata |-> md]

\* the entry of the set with the highest score
Best(entries) == CHOOSE m \in entries : \A o \in entries : o.score <= m.score

\* index.query(vector, top_k, include_metadata): the k nearest entries, by
\* descending score
RECURSIVE StoreQuery(_, _)
StoreQuery(entries, k) ==
    IF k = 0 \/ entries = {} THEN <<>>
    ELSE <<Best(entries)>> \o StoreQuery(entries \ {Best(entries)}, k - 1)

\* a retriever that asks the store for everything it holds
query_pinecone_all(query_vector, entries) ==
    StoreQuery(entries, Cardinality(entries))

\* query_pinecone after create_embedding: index.query with top_k, returned as is
query_pinecone(query_vector, entries) ==
    StoreQuery(entries, top_k)

\* metadata.get(k, default)
MetaGet(md, k, default) ==
    IF k \in DOMAIN md THEN md[k] ELSE default

\* f"[Source: {source}]\n{text}\n"
ContextBlock(match) ==
    <<"[Source: ", MetaGet(match.metadata, "source", "Unknown source"), "]\n",
      MetaGet(match.metadata, "text", ""), "\n">>

\* "\n".join(context)
RECURSIVE JoinBlocks(_)
JoinBlocks(blocks) ==
    IF blocks = <<>> THEN <<>>
    ELSE IF Len(blocks) = 1 THEN blocks[1]
    ELSE blocks[1] \o <<"\n">> \o JoinBlocks(Tail(blocks))

\* format_context(results)
format_context(matches) ==
    JoinBlocks([j \in 1..Len(matches) |-> ContextBlock(matches[j])])

\* the chat page has not been opened
BotIdle ==
    /\ b_index = {}
    /\ b_pc = "closed"
    /\ b_asked = 0
    /\ b_calls = <<>>
    /\ b_vector = Raised
    /\ b_results = <<>>
    /\ b_context = <<>>
    /\ b_out = [raised |-> FALSE, text |-> <<>>]
    /\ b_messages = <<>>

\* convert_excel_to_txt.main is not running
MainIdle ==
    /\ x_pc = "idle"
    /\ x_temp = "absent"
    /\ x_log = <<>>
    /\ x_exit = "none"

\* no bucket is being filled and ingested
IdsIdle ==
    /\ d_bucket = {}
    /\ d_made = {}
    /\ d_store = <<>>

\* the scraper's main is not running
ScrapeIdle ==
    /\ listings = <<>>
    /\ k_pc = "idle"
    /\ k_log = <<>>
    /\ success_count = 0
    /\ error_count = 0

\* no browser session is open
UiIdle ==
    /\ logged_in = FALSE
    /\ access_token = <<>>
    /\ auth_username = <<>>
    /\ u_page = "none"
    /\ u_log = <<>>

\* fetch_soup is not being called
FetchIdle ==
    /\ f_retries = 0
    /\ f_attempt = 0
    /\ f_pc = "idle"
    /\ f_log = <<>>
    /\ f_out = [kind |-> "nothing", value |-> 0]

\* no workbook is being looked at on its own
SheetIdle ==
    /\ s_workbook = <<>>
    /\ s_impl = "none"
    /\ s_pc = "idle"
    /\ s_text = UnsupportedResult

\* no key is being looked at on its own
MetaIdle ==
    /\ m_segs = <<>>
    /\ m_key = <<>>
    /\ m_pc = "idle"
    /\ m_meta = [source |-> <<>>]
    /\ m_entry = [id |-> <<>>]

---------------------------------------------------------------------------
(* The indexer: ids, metadata, the vector store *)

\* an extract_metadata that keeps the file name as the country
extract_metadata_keep_suffix(key) ==
    LET parts == Split(key, "/")
        base == [source |-> key]
    IN  IF StartsWith(key, <<"aacrao", "/">>)
        THEN IF Len(parts) >= 3
             THEN [region |-> parts[2], country |-> parts[3]] @@ base
             ELSE base
        ELSE IF \/ StartsWith(key, <<"FCE Regulations TXT", "/">>)
                \/ StartsWith(key, <<"FCE Regulations", "/">>)
        THEN IF Len(parts) >= 3
             THEN [document_type |-> "regulation", category |-> parts[2]] @@ base
             ELSE [document_type |-> "regulation"] @@ base
        ELSE base

extract_metadata(key) ==
    LET parts == Split(key, "/")
        base == [source |-> key]
    IN  IF StartsWith(key, <<"aacrao", "/">>)
        THEN IF Len(parts) >= 3
             THEN [region |-> parts[2],
                   country |-> RemoveSub(parts[3], TxtSuffix)] @@ base
             ELSE base
        ELSE IF \/ StartsWith(key, <<"FCE Regulations TXT", "/">>)
                \/ StartsWith(key, <<"FCE Regulations", "/">>)
        THEN IF Len(parts) >= 3
             THEN [document_type |-> "regulation", category |-> parts[2]] @@ base
             ELSE [document_type |-> "regulation"] @@ base
        ELSE base

\* an id that differs from one launch to the next
ChunkIdPerRun(key, n) ==
    ReplaceChar(key, "/", "_") \o <<"_", ToString(n), "_", ToString(run)>>

\* f"{key.replace('/', '_')}_{i}"
ChunkId(key, n) == ReplaceChar(key, "/", "_") \o <<"_", ToString(n)>>

\* an entry whose chunk_index counts the entries built so far
IndexEntryByCount(key, n, chunk, vector, meta, total) ==
    [id |-> ChunkId(key, n),
     values |-> vector,
     metadata |-> [chunk_index |-> Len(vectors_to_upsert),
                   total_chunks |-> total,
                   text |-> Take(chunk, TextLimit)] @@ meta]

\* {"id": chunk_id, "values": vector, "metadata": chunk_metadata}
IndexEntry(key, n, chunk, vector, meta, total) ==
    [id |-> ChunkId(key, n),
     values |-> vector,
     metadata |-> [chunk_index |-> n,
                   total_chunks |-> total,
                   text |-> Take(chunk, TextLimit)] @@ meta]

Ids(vectors) == [j \in 1..Len(vectors) |-> vectors[j].id]

IdSet(vectors) == {vectors[j].id : j \in 1..Len(vectors)}

\* index.upsert(vectors=vectors) when it succeeds: insert or overwrite by id,
\* the last entry of the batch winning
Upsert(st, vectors) ==
    [id \in DOMAIN st \cup IdSet(vectors) |->
        IF id \in IdSet(vectors)
        THEN LET j == CHOOSE x \in 1..Len(vectors) :
                          /\ vectors[x].id = id
                          /\ \A y \in (x + 1)..Len(vectors) : vectors[y].id # id
             IN  [values |-> vectors[j].values, metadata |-> vectors[j].metadata]
        ELSE st[id]]

EmptyStore == [id \in {} |-> <<>>]

---------------------------------------------------------------------------
(* ingest_to_pinecone.process_and_upsert *)

\* a step of an indexing script touches nothing else
IxOnly == UNCHANGED <<embvars, convars, authvars, botvars, metavars, sheetvars, fetchvars, mainvars, idvars, scrapevars, uivars>>

\* a loop whose except clause gives up instead of going on
AfterEmbedErrorAbort == "abort"

\* the except clause of the chunk loop (lines 180-181): log, go on with the
\* next chunk
AfterEmbedError == "continue"

\* a flush test that is off by one
ShouldFlushLate(n) == n > batch_size

\* `if len(vectors_to_upsert) >= batch_size`
ShouldFlush(n) == n >= batch_size

\* `vectors_to_upsert = []` after a flush
\* a flush that leaves the list as it was
AfterFlushKeep(batch) == batch

AfterFlush(batch) == <<>>

\* an _upsert_batch that lets the error out
AfterUpsertErrorRaise == "raise"

\* _upsert_batch's except clause (lines 194-195): log, return normally
AfterUpsertError == "continue"

\* _upsert_batch(index, vectors); ok is whether index.upsert succeeded
upsert_batch(vectors, ok, phase) ==
    /\ store' = IF ok THEN Upsert(store, vectors) ELSE store
    /\ upsertLog' = Append(upsertLog,
                           [phase |-> phase, ids |-> Ids(vectors), ok |-> ok])

\* the index check and the set-up before the loop (lines 123-135)
Connect ==
    /\ prog = "ingest" /\ pc = "connect"
    /\ \E exists \in BOOLEAN :
         /\ ~exists => faults < MaxFaults
         /\ faults' = IF exists THEN faults ELSE faults + 1
         /\ IF exists
            THEN /\ pc' = "keys"
                 /\ kpos' = 1
                 /\ vectors_to_upsert' = <<>>
                 /\ UNCHANGED result
            ELSE /\ pc' = "done"
                 /\ result' = "False"
                 /\ UNCHANGED <<kpos, vectors_to_upsert>>
    /\ UNCHANGED <<prog, run, metadata, chunks, i, store, upsertLog, embedOk,
                   embedFail, fetched, getFailed, idsAfterFirst, text_content>>
    /\ IxOnly

\* a loop that downloads a key before it decides to skip it
SkipKeyAfterFetch ==
    /\ prog = "ingest" /\ pc = "keys" /\ kpos <= Len(keys)
    /\ \/ EndsWith(keys[kpos], <<"/">>)
       \/ ~EndsWith(keys[kpos], TxtSuffix)
    /\ kpos' = kpos + 1
    /\ fetched' = (kpos :> 0) @@ fetched
    /\ UNCHANGED <<prog, pc, run, faults, metadata, chunks, i, vectors_to_upsert,
                   result, store, upsertLog, embedOk, embedFail,
                   getFailed, idsAfterFirst, text_content>>
    /\ IxOnly

\* a key ending in '/' or not ending in '.txt': continue (lines 138-144)
SkipKey ==
    /\ prog = "ingest" /\ pc = "keys" /\ kpos <= Len(keys)
    /\ \/ EndsWith(keys[kpos], <<"/">>)
       \/ ~EndsWith(keys[kpos], TxtSuffix)
    /\ kpos' = kpos + 1
    /\ UNCHANGED <<prog, pc, run, faults, metadata, chunks, i, vectors_to_upsert,
                   result, store, upsertLog, embedOk, embedFail, fetched,
                   getFailed, idsAfterFirst, text_content>>
    /\ IxOnly

\* get_s3_object, extract_metadata, split_text (lines 146-155); got is
\* whether s3.get_object succeeded (get_s3_object returns None when not)
FetchKey ==
    /\ prog = "ingest" /\ pc = "keys" /\ kpos <= Len(keys)
    /\ ~EndsWith(keys[kpos], <<"/">>)
    /\ EndsWith(keys[kpos], TxtSuffix)
    /\ \E got \in BOOLEAN :
         LET key == keys[kpos]
             split == DocChunks(key)
         IN  /\ ~got => faults < MaxFaults
             /\ faults' = IF got THEN faults ELSE faults + 1
             /\ getFailed' = IF got THEN getFailed ELSE getFailed \cup {kpos}
             /\ IF ~got \/ ObjectEmpty(key)
                THEN /\ kpos' = kpos + 1
                     /\ UNCHANGED <<pc, metadata, chunks, i, fetched>>
                ELSE /\ metadata' = extract_metadata(key)
                     /\ chunks' = split
                     /\ i' = 0
                     /\ fetched' = (kpos :> Len(split)) @@ fetched
                     /\ IF Len(split) = 0
                        THEN kpos' = kpos + 1 /\ UNCHANGED pc
                        ELSE pc' = "chunks" /\ UNCHANGED kpos
    /\ UNCHANGED <<prog, run, vectors_to_upsert, result, store, upsertLog,
                   embedOk, embedFail, idsAfterFirst, text_content>>
    /\ IxOnly

\* one iteration of the chunk loop (lines 158-181)
EmbedChunk ==
    /\ prog = "ingest" /\ pc = "chunks"
    /\ \E response \in IndexerResponses, upOk \in BOOLEAN :
         LET key == keys[kpos]
             r == create_embedding(response)
             entry == IndexEntry(key, i, chunks[i + 1], r.vector, metadata,
                                 Len(chunks))
             batch == Append(vectors_to_upsert, entry)
             flush == ~r.raised /\ ShouldFlush(Len(batch))
             failed == r.raised \/ (flush /\ ~upOk)
             lastChunk == i + 1 = Len(chunks)
             stop == r.raised /\ AfterEmbedError # "continue"
         IN  /\ failed => faults < MaxFaults
             /\ ~flush => upOk
             /\ faults' = IF failed THEN faults + 1 ELSE faults
             /\ IF r.raised
                THEN /\ embedFail' = embedFail \cup {<<kpos, i>>}
                     /\ UNCHANGED <<embedOk, vectors_to_upsert, store, upsertLog>>
                ELSE /\ embedOk' = embedOk \cup {<<kpos, i>>}
                     /\ UNCHANGED embedFail
                     /\ IF flush
                        THEN /\ upsert_batch(batch, upOk, "loop")
                             /\ vectors_to_upsert' =
                                  IF ~upOk /\ AfterUpsertError # "continue"
                                  THEN batch
                                  ELSE AfterFlush(batch)
                        ELSE /\ vectors_to_upsert' = batch
                             /\ UNCHANGED <<store, upsertLog>>
             /\ i' = i + 1
             /\ IF stop
                THEN pc' = "raised" /\ UNCHANGED kpos
                ELSE IF lastChunk
                THEN pc' = "keys" /\ kpos' = kpos + 1
                ELSE UNCHANGED <<pc, kpos>>
    /\ UNCHANGED <<prog, run, metadata, chunks, result, fetched, getFailed, idsAfterFirst,
                   text_content>>
    /\ IxOnly

\* after the loop: flush the remainder, return True (lines 183-187)
Finish ==
    /\ prog = "ingest" /\ pc = "keys" /\ kpos > Len(keys)
    /\ \E upOk \in BOOLEAN :
         /\ ~upOk => faults < MaxFaults /\ vectors_to_upsert # <<>>
         /\ faults' = IF upOk THEN faults ELSE faults + 1
         /\ IF vectors_to_upsert # <<>>
            THEN upsert_batch(vectors_to_upsert, upOk, "final")
            ELSE UNCHANGED <<store, upsertLog>>
         /\ IF ~upOk /\ AfterUpsertError # "continue"
            THEN pc' = "raised" /\ UNCHANGED result
            ELSE pc' = "done" /\ result' = "True"
    /\ UNCHANGED <<prog, run, kpos, metadata, chunks, i, vectors_to_upsert,
                   fetched, embedOk, embedFail, getFailed, idsAfterFirst, text_content>>
    /\ IxOnly

---------------------------------------------------------------------------
(* convert_excel_to_txt.process_and_index_text(text_content, text_key) *)

\* the except clause of the chunk loop (lines 158-159): print, go on
AfterEmbedErrorExcel == "continue"

\* metadata and split (lines 128-139)
X_Start ==
    /\ prog = "excel" /\ pc = "x_index"
    /\ metadata' = [source |-> text_key, document_type |-> "regulation"]
    /\ chunks' = text_content
    /\ i' = 0
    /\ vectors_to_upsert' = <<>>
    /\ kpos' = 1
    /\ fetched' = (1 :> Len(text_content)) @@ fetched
    /\ pc' = IF Len(text_content) = 0 THEN "x_upsert" ELSE "x_chunks"
    /\ UNCHANGED <<prog, run, faults, result, store, upsertLog, embedOk,
                   embedFail, getFailed, idsAfterFirst, text_content>>
    /\ IxOnly

\* one iteration of the chunk loop (lines 141-159)
X_EmbedChunk ==
    /\ prog = "excel" /\ pc = "x_chunks"
    /\ \E response \in IndexerResponses :
         LET r == create_embedding_excel(response)
             entry == IndexEntry(text_key, i, chunks[i + 1], r.vector,
                                 metadata, Len(chunks))
             stop == r.raised /\ AfterEmbedErrorExcel # "continue"
         IN  /\ r.raised => faults < MaxFaults
             /\ faults' = IF r.raised THEN faults + 1 ELSE faults
             /\ IF r.raised
                THEN /\ embedFail' = embedFail \cup {<<kpos, i>>}
                     /\ UNCHANGED <<embedOk, vectors_to_upsert>>
                ELSE /\ embedOk' = embedOk \cup {<<kpos, i>>}
                     /\ vectors_to_upsert' = Append(vectors_to_upsert, entry)
                     /\ UNCHANGED embedFail
             /\ i' = i + 1
             /\ pc' = IF stop THEN "raised"
                      ELSE IF i + 1 = Len(chunks) THEN "x_upsert"
                      ELSE pc
    /\ UNCHANGED <<prog, run, kpos, metadata, chunks, result, store, upsertLog,
                   fetched, getFailed, idsAfterFirst, text_content>>
    /\ IxOnly

\* the returned value when at least one vector was built and index.upsert
\* answered ok (lines 163-169)
UpsertResult(ok) == IF ok THEN "True" ELSE "False"

\* a success reported although nothing was upserted
NoVectorsResultTrue == "True"

\* the returned value when no vector was built (lines 170-172)
NoVectorsResult == "False"

\* the single upsert and the return (lines 161-172)
X_Upsert ==
    /\ prog = "excel" /\ pc = "x_upsert"
    /\ \E upOk \in BOOLEAN :
         /\ ~upOk => faults < MaxFaults /\ vectors_to_upsert # <<>>
         /\ faults' = IF upOk THEN faults ELSE faults + 1
         /\ IF vectors_to_upsert # <<>>
            THEN /\ upsert_batch(vectors_to_upsert, upOk, "final")
                 /\ result' = UpsertResult(upOk)
            ELSE /\ result' = NoVectorsResult
                 /\ UNCHANGED <<store, upsertLog>>
    /\ pc' = "done"
    /\ UNCHANGED <<prog, run, kpos, metadata, chunks, i, vectors_to_upsert,
                   fetched, embedOk, embedFail, getFailed, idsAfterFirst, text_content>>
    /\ IxOnly

---------------------------------------------------------------------------
(* The scripts are launched, and may be launched again over the same data *)

StartPc(p) == IF p = "ingest" THEN "connect" ELSE "x_index"

Rerun ==
    /\ pc = "done" /\ run < MaxRuns
    /\ run' = run + 1
    /\ pc' = StartPc(prog)
    /\ idsAfterFirst' = IF run = 1 THEN DOMAIN store ELSE idsAfterFirst
    /\ result' = "none"
    /\ kpos' = 0
    /\ metadata' = <<>>
    /\ chunks' = <<>>
    /\ i' = 0
    /\ vectors_to_upsert' = <<>>
    /\ upsertLog' = <<>>
    /\ embedOk' = {}
    /\ embedFail' = {}
    /\ fetched' = <<>>
    /\ getFailed' = {}
    /\ UNCHANGED <<prog, faults, store, text_content>>
    /\ IxOnly

\* the state of the indexer variables before a launch
IxFresh ==
    /\ run = 1
    /\ faults = 0
    /\ kpos = 0
    /\ metadata = <<>>
    /\ chunks = <<>>
    /\ i = 0
    /\ vectors_to_upsert = <<>>
    /\ result = "none"
    /\ store = EmptyStore
    /\ upsertLog = <<>>
    /\ embedOk = {}
    /\ embedFail = {}
    /\ fetched = <<>>
    /\ getFailed = {}
    /\ idsAfterFirst = {}

\* no indexing script is running
IxIdle ==
    /\ prog = "none"
    /\ pc = "idle"
    /\ text_content = <<>>
    /\ IxFresh

Init ==
    /\ prog \in {"ingest", "excel"}
    /\ text_content \in IF prog = "excel"
                        THEN {TextChunks(1), TextChunks(ChunksX)}
                        ELSE {<<>>}
    /\ pc = StartPc(prog)
    /\ IxFresh
    /\ EmbedIdle
    /\ ConvertIdle
    /\ AuthIdle
    /\ BotIdle
    /\ MetaIdle
    /\ SheetIdle
    /\ FetchIdle
    /\ MainIdle
    /\ IdsIdle
    /\ ScrapeIdle
    /\ UiIdle

Next ==
    \/ Connect
    \/ SkipKey
    \/ FetchKey
    \/ EmbedChunk
    \/ Finish
    \/ X_Start
    \/ X_EmbedChunk
    \/ X_Upsert
    \/ Rerun

Spec == Init /\ [][Next]_vars

---------------------------------------------------------------------------
(* create_embedding on its own: one call of one of its three copies *)

\* how far from D the lengths of the off-size upstream vectors are
Slack == 1

\* text-embedding-ada-002's native dimensionality
NativeDim == 1536

EmbedLens == {0, 1, D - Slack, D, D + Slack, NativeDim}

EmbedPatterns == {"zeros", "zerohead", "ones", "ramp", "signed"}

\* an upstream vector of length n
UpstreamVector(n, pat) ==
    [j \in 1..n |->
        CASE pat = "zeros" -> 0
          [] pat = "zerohead" -> IF j <= D THEN 0 ELSE 1
          [] pat = "ones" -> 1
          [] pat = "ramp" -> j % 3
          [] OTHER -> IF j % 2 = 0 THEN 1 ELSE -2]

EmbedResponses ==
    {Response("error", <<>>), Response("malformed", <<>>)}
        \cup {Response("ok", UpstreamVector(n, pat)) :
                  n \in EmbedLens, pat \in EmbedPatterns}

EmbedOnly == UNCHANGED <<ixvars, convars, authvars, botvars, metavars, sheetvars, fetchvars, mainvars, idvars, scrapevars, uivars>>

CallIngest ==
    /\ e_pc = "call" /\ e_impl = "ingest"
    /\ e_out' = create_embedding(e_response)
    /\ e_pc' = "returned"
    /\ UNCHANGED <<e_impl, e_response>>
    /\ EmbedOnly

CallExcel ==
    /\ e_pc = "call" /\ e_impl = "excel"
    /\ e_out' = create_embedding_excel(e_response)
    /\ e_pc' = "returned"
    /\ UNCHANGED <<e_impl, e_response>>
    /\ EmbedOnly

CallBot ==
    /\ e_pc = "call" /\ e_impl = "bot"
    /\ e_out' = create_embedding_bot(e_response)
    /\ e_pc' = "returned"
    /\ UNCHANGED <<e_impl, e_response>>
    /\ EmbedOnly

InitEmbed ==
    /\ IxIdle
    /\ e_impl \in {"ingest", "excel", "bot"}
    /\ e_response \in EmbedResponses
    /\ e_pc = "call"
    /\ e_out = Raised
    /\ ConvertIdle
    /\ AuthIdle
    /\ BotIdle
    /\ MetaIdle
    /\ SheetIdle
    /\ FetchIdle
    /\ MainIdle
    /\ IdsIdle
    /\ ScrapeIdle
    /\ UiIdle

NextEmbed ==
    \/ CallIngest
    \/ CallExcel
    \/ CallBot

SpecEmbed == InitEmbed /\ [][NextEmbed]_vars

---------------------------------------------------------------------------
(* convert_s3_docs_to_txt.main: the loop over the listing *)

\* keys a listing holds at most
MaxListing == 3

CFolder == <<"FCE Regulations", "/">>
CPdf == <<"FCE Regulations", "/", "Handbook", ".", "PDF">>
CDocx == <<"FCE Regulations", "/", "Policy", ".", "docx">>
CNotes == <<"FCE Regulations", "/", "notes", ".", "txt">>
CReadme == <<"FCE Regulations", "/", "README">>

ConvertPool == {CFolder, CPdf, CDocx, KeyXlsx, CNotes, CReadme}

\* the listings: keys of the pool, each at most once
Listings ==
    {l \in UNION {[1..n -> ConvertPool] : n \in 1..MaxListing} :
        \A a, b \in 1..Len(l) : a # b => l[a] # l[b]}

ConvertOnly == UNCHANGED <<ixvars, embvars, authvars, botvars, metavars, sheetvars, fetchvars, mainvars, idvars, scrapevars, uivars>>

\* a folder marker: continue (lines 82-83)
C_SkipFolder ==
    /\ c_pc = "loop" /\ c_pos <= Len(c_listing)
    /\ EndsWith(c_listing[c_pos], <<"/">>)
    /\ c_log' = Append(c_log, "folder")
    /\ c_pos' = c_pos + 1
    /\ UNCHANGED <<c_listing, c_pc, c_puts>>
    /\ ConvertOnly

\* extract_text, then the unsupported-type skip or put_object (lines 85-101);
\* an exception of get_object, of the extraction or of put_object ends main
C_Process ==
    /\ c_pc = "loop" /\ c_pos <= Len(c_listing)
    /\ ~EndsWith(c_listing[c_pos], <<"/">>)
    /\ \E got \in BOOLEAN, parsed \in BOOLEAN, putOk \in BOOLEAN :
         LET key == c_listing[c_pos]
             txt == extract_text(key, got, parsed)
         IN  IF txt.raised
             THEN /\ c_log' = Append(c_log, IF got THEN "extract_failed"
                                                   ELSE "get_failed")
                  /\ c_pc' = "crashed"
                  /\ UNCHANGED <<c_pos, c_puts>>
             ELSE IF txt.none
             THEN /\ c_log' = Append(c_log, "skipped")
                  /\ c_pos' = c_pos + 1
                  /\ UNCHANGED <<c_pc, c_puts>>
             ELSE IF putOk
             THEN /\ c_puts' = Append(c_puts, [Key |-> OutKey(key),
                                               Body |-> txt.text,
                                               from |-> c_pos])
                  /\ c_log' = Append(c_log, "uploaded")
                  /\ c_pos' = c_pos + 1
                  /\ UNCHANGED c_pc
             ELSE /\ c_log' = Append(c_log, "put_failed")
                  /\ c_pc' = "crashed"
                  /\ UNCHANGED <<c_pos, c_puts>>
    /\ UNCHANGED c_listing
    /\ ConvertOnly

\* the listing is exhausted: main returns
C_Done ==
    /\ c_pc = "loop" /\ c_pos > Len(c_listing)
    /\ c_pc' = "done"
    /\ UNCHANGED <<c_listing, c_pos, c_log, c_puts>>
    /\ ConvertOnly

InitConvert ==
    /\ IxIdle
    /\ EmbedIdle
    /\ c_listing \in Listings
    /\ c_pos = 1
    /\ c_pc = "loop"
    /\ c_log = <<>>
    /\ c_puts = <<>>
    /\ AuthIdle
    /\ BotIdle
    /\ MetaIdle
    /\ SheetIdle
    /\ FetchIdle
    /\ MainIdle
    /\ IdsIdle
    /\ ScrapeIdle
    /\ UiIdle

NextConvert ==
    \/ C_SkipFolder
    \/ C_Process
    \/ C_Done

SpecConvert == InitConvert /\ [][NextConvert]_vars

---------------------------------------------------------------------------
(* Either script: one run of ingest_to_pinecone / convert_excel_to_txt, or *)
(* one run of convert_s3_docs_to_txt                                       *)

InitLoops == Init \/ InitConvert

NextLoops == Next \/ NextConvert

SpecLoops == InitLoops /\ [][NextLoops]_vars

---------------------------------------------------------------------------
(* jwtauth.register: requests are served concurrently, one SQL statement   *)
(* at a time                                                               *)

\* requests received in a run of the service
MaxRequests == 3

Usernames == {"alice", "bob"}
Emails == {"a@example.org", "b@example.org"}
Passwords == {"pw1", "pw2"}

AuthOnly == UNCHANGED <<ixvars, embvars, convars, botvars, metavars, sheetvars, fetchvars, mainvars, idvars, scrapevars, uivars>>

\* POST /register arrives
Register ==
    /\ Len(a_reqs) < MaxRequests
    /\ \E u \in Usernames, e \in Emails, p \in Passwords :
         a_reqs' = Append(a_reqs, [op |-> "register", username |-> u,
                                   email |-> e, password |-> p,
                                   pc |-> "select", status |-> 0,
                                   seen |-> <<>>, row |-> 0])
    /\ UNCHANGED <<a_table, a_users, a_now>>
    /\ AuthOnly

\* CREATE TABLE IF NOT EXISTS and the duplicate check (lines 86-100)
RegisterSelect ==
    /\ \E r \in DOMAIN a_reqs :
         /\ a_reqs[r].op = "register" /\ a_reqs[r].pc = "select"
         /\ a_table' = TRUE
         /\ a_reqs' = [a_reqs EXCEPT ![r] =
                IF UserExists(a_users, a_reqs[r].username)
                THEN [@ EXCEPT !.seen = a_users, !.pc = "done", !.status = 400]
                ELSE [@ EXCEPT !.seen = a_users, !.pc = "insert"]]
    /\ UNCHANGED <<a_users, a_now>>
    /\ AuthOnly

\* hash_password, INSERT, commit, 201 (lines 102-110)
RegisterInsert ==
    /\ \E r \in DOMAIN a_reqs :
         /\ a_reqs[r].op = "register" /\ a_reqs[r].pc = "insert"
         /\ a_users' = Append(a_users,
                              UserRow(a_reqs[r].username, a_reqs[r].email,
                                      hash_password(a_reqs[r].password)))
         /\ a_reqs' = [a_reqs EXCEPT ![r] =
                [@ EXCEPT !.pc = "done", !.status = 201,
                          !.row = Len(a_users) + 1]]
    /\ UNCHANGED <<a_table, a_now>>
    /\ AuthOnly

InitAuth ==
    /\ IxIdle
    /\ EmbedIdle
    /\ ConvertIdle
    /\ AuthIdle
    /\ BotIdle
    /\ MetaIdle
    /\ SheetIdle
    /\ FetchIdle
    /\ MainIdle
    /\ IdsIdle
    /\ ScrapeIdle
    /\ UiIdle

NextAuth ==
    \/ Register
    \/ RegisterSelect
    \/ RegisterInsert

SpecAuth == InitAuth /\ [][NextAuth]_vars

---------------------------------------------------------------------------
(* jwtauth.login and jwtauth.protected_route, served next to register      *)

\* timedelta(minutes=60)
TokenMinutes == 60

\* the clock advances in steps of TickMinutes up to MaxClock
TickMinutes == 30
MaxClock == 90

\* the empty dict
NoData == [k \in {} |-> ""]

\* jwt.encode(payload, key, algorithm="HS256")
jwt_encode(payload, key) ==
    [payload |-> payload, sig |-> <<"HS256", key, payload>>]

\* a token that lives for half an hour
create_jwt_token_short(data, now) ==
    jwt_encode([k \in {"exp"} \cup DOMAIN data |->
                   IF k \in DOMAIN data THEN data[k] ELSE now + TickMinutes],
               SECRET_KEY)

\* create_jwt_token: payload = {"exp": now + 60 min, **data}
create_jwt_token(data, now) ==
    jwt_encode([k \in {"exp"} \cup DOMAIN data |->
                   IF k \in DOMAIN data THEN data[k] ELSE now + TokenMinutes],
               SECRET_KEY)

\* jwt.decode: the signature is verified first, then exp against the clock
\* (a token is expired once exp <= now)
decode_jwt_token(token, now) ==
    IF token.sig # <<"HS256", SECRET_KEY, token.payload>>
    THEN [status |-> 401, detail |-> "Invalid token", payload |-> NoData]
    ELSE IF "exp" \in DOMAIN token.payload /\ token.payload["exp"] <= now
         THEN [status |-> 401, detail |-> "Token expired", payload |-> NoData]
         ELSE [status |-> 200, detail |-> "", payload |-> token.payload]

\* payload.get("username"): the value, or None as the empty option
PayloadGet(payload, k) ==
    IF k \in DOMAIN payload THEN <<payload[k]>> ELSE <<>>

\* get_user_from_db: the rows fetchone() can return for WHERE USERNAME = %s;
\* the query has no ORDER BY, so any matching row can come first, and NULL
\* equals nothing
MatchingRows(rows, username) ==
    {j \in 1..Len(rows) : <<rows[j].USERNAME>> = username}

\* db_user["HASHED_PASSWORD"] != hash_password(user.password), negated
CredentialsOk(db_user, password) ==
    db_user.HASHED_PASSWORD = hash_password(password)

NoToken == jwt_encode(NoData, "")

\* POST /login: one SELECT, then the comparison and the token (lines 113-120)
Login ==
    /\ Len(a_reqs) < MaxRequests
    /\ \E u \in Usernames, p \in Passwords :
         LET base == [op |-> "login", username |-> u, password |-> p,
                      pc |-> "done", table |-> a_table, seen |-> a_users,
                      at |-> a_now]
             hits == MatchingRows(a_users, <<u>>)
         IN  IF ~a_table
             THEN \* SELECT on a table that does not exist: uncaught error
                  a_reqs' = Append(a_reqs,
                      base @@ [status |-> 500, row |-> 0, token |-> NoToken])
             ELSE IF hits = {}
             THEN a_reqs' = Append(a_reqs,
                      base @@ [status |-> 401, row |-> 0, token |-> NoToken])
             ELSE \E j \in hits :
                      a_reqs' = Append(a_reqs,
                          IF CredentialsOk(a_users[j], p)
                          THEN base @@ [status |-> 200, row |-> j,
                                        token |-> create_jwt_token(
                                            [username |-> u], a_now)]
                          ELSE base @@ [status |-> 401, row |-> j,
                                        token |-> NoToken])
    /\ UNCHANGED <<a_table, a_users, a_now>>
    /\ AuthOnly

\* tokens this service has handed out
IssuedTokens ==
    {a_reqs[r].token : r \in {q \in DOMAIN a_reqs :
                                 a_reqs[q].op = "login" /\ a_reqs[q].status = 200}}

ClockValues == {t \in 0..MaxClock : t % TickMinutes = 0}

\* tokens made with the service's key and create_jwt_token, but not by login
ForeignData == {NoData, [username |-> "carol"], [username |-> "alice"]}

\* tokens a client can present: issued ones, ones signed with the key for
\* other data, and ones signed with another key or altered after signing
PresentableTokens ==
    IssuedTokens
    \cup {create_jwt_token(d, t) :
             d \in ForeignData, t \in {c \in ClockValues : c <= a_now}}
    \cup {jwt_encode([exp |-> a_now + TokenMinutes, username |-> "alice"],
                     "other-key")}
    \cup {[payload |-> [exp |-> a_now + TokenMinutes, username |-> "alice"],
           sig |-> tk.sig] : tk \in IssuedTokens}

\* `if not user` (line 67), negated
UserKnown(hits) ==
    hits # {}

\* GET /protected: get_current_user, then the greeting (lines 63-69, 123-125)
Protected ==
    /\ Len(a_reqs) < MaxRequests
    /\ \E tk \in PresentableTokens :
         LET base == [op |-> "protected", token |-> tk, pc |-> "done",
                      table |-> a_table, seen |-> a_users, at |-> a_now]
             dec == decode_jwt_token(tk, a_now)
             username == PayloadGet(dec.payload, "username")
             hits == MatchingRows(a_users, username)
         IN  IF dec.status # 200
             THEN a_reqs' = Append(a_reqs,
                      base @@ [status |-> 401, detail |-> dec.detail,
                               greeting |-> ""])
             ELSE IF ~a_table
             THEN a_reqs' = Append(a_reqs,
                      base @@ [status |-> 500, detail |-> "", greeting |-> ""])
             ELSE IF ~UserKnown(hits)
             THEN a_reqs' = Append(a_reqs,
                      base @@ [status |-> 401, detail |-> "User not found",
                               greeting |-> ""])
             ELSE \E j \in hits :
                      a_reqs' = Append(a_reqs,
                          base @@ [status |-> 200, detail |-> "",
                                   greeting |-> a_users[j].USERNAME])
    /\ UNCHANGED <<a_table, a_users, a_now>>
    /\ AuthOnly

\* time passes
Tick ==
    /\ a_now + TickMinutes <= MaxClock
    /\ a_now' = a_now + TickMinutes
    /\ UNCHANGED <<a_table, a_users, a_reqs>>
    /\ AuthOnly

NextService ==
    \/ Register
    \/ RegisterSelect
    \/ RegisterInsert
    \/ Login
    \/ Protected
    \/ Tick

SpecService == InitAuth /\ [][NextService]_vars

---------------------------------------------------------------------------
(* AskMirabot.show_bot and get_rag_response *)

\* questions typed in one session
MaxQueries == 2

\* calls a retrying variant would make to one service
MaxAttempts == 3

BotOnly == UNCHANGED <<ixvars, embvars, convars, authvars, metavars, sheetvars, fetchvars, mainvars, idvars, scrapevars, uivars>>

\* what the index can hold; scores are those against the question asked
BotPool ==
    {Match("m1", 91, [source |-> "aacrao/asia/india.txt", text |-> "t1"]),
     Match("m2", 84, [source |-> "aacrao/asia/japan.txt", text |-> "t2"]),
     Match("m3", 77, [text |-> "t3"]),
     Match("m4", 65, [source |-> "FCE Regulations TXT/rules.txt"]),
     Match("m5", 40, [source |-> "aacrao/europe/france.txt", text |-> "t5"]),
     Match("m6", 12, [source |-> "aacrao/europe/spain.txt", text |-> "t6"]),
     Match("m7", 3, [source |-> "notes.txt", text |-> "t7"])}

\* what the embedding service answers the bot
BotEmbedResponses ==
    {Response("error", <<>>), Response("ok", <<3, 4>>), Response("ok", <<0, 0>>)}

ErrorText(e) == <<"Error generating response: ", e>>

\* the except clause that turns failures into an exception for the caller
OnFailureRaise(stage) == "raise"

\* the except clause that tries a failed completion again
OnFailureRetry(stage) == IF stage = "complete" THEN "retry" ELSE "return"

\* `except Exception as e: return f"... {e}"` around the whole body
OnFailure(stage) == "return"

\* the effect of a failure at a stage of get_rag_response
Fail(stage, e) ==
    LET act == OnFailure(stage)
        n == Cardinality({j \in 1..Len(b_calls) : b_calls[j][1] = stage})
    IN  /\ b_calls' = Append(b_calls, <<stage, "failed">>)
        /\ IF act = "retry" /\ n + 1 < MaxAttempts
           THEN UNCHANGED <<b_pc, b_out>>
           ELSE /\ b_pc' = "returned"
                /\ b_out' = IF act = "raise"
                            THEN [raised |-> TRUE, text |-> <<e>>]
                            ELSE [raised |-> FALSE, text |-> ErrorText(e)]

\* the page is opened: session_state.messages = [] (lines 134-136)
B_Open ==
    /\ b_pc = "closed"
    /\ b_pc' = "idle"
    /\ UNCHANGED <<b_index, b_asked, b_calls, b_vector, b_results, b_context,
                   b_out, b_messages>>
    /\ BotOnly

\* a question is typed (lines 146-157)
B_Input ==
    /\ b_pc = "idle"
    /\ b_asked < MaxQueries
    /\ \E q \in {"q1", "q2"}, rag_mode \in BOOLEAN :
         /\ b_messages' = Append(b_messages, [role |-> "user", content |-> <<q>>])
         /\ b_pc' = IF rag_mode THEN "embed" ELSE "legacy"
    /\ b_asked' = b_asked + 1
    /\ b_calls' = <<>>
    /\ b_vector' = Raised
    /\ b_results' = <<>>
    /\ b_context' = <<>>
    /\ b_out' = [raised |-> FALSE, text |-> <<>>]
    /\ UNCHANGED b_index
    /\ BotOnly

\* query_pinecone: create_embedding(query) (line 44)
B_Embed ==
    /\ b_pc = "embed"
    /\ \E response \in BotEmbedResponses :
         LET v == create_embedding_bot(response)
         IN  IF v.raised
             THEN /\ Fail("embed", "embedding failed")
                  /\ UNCHANGED b_vector
             ELSE /\ b_vector' = v
                  /\ b_calls' = Append(b_calls, <<"embed", "ok">>)
                  /\ b_pc' = "query"
                  /\ UNCHANGED b_out
    /\ UNCHANGED <<b_index, b_asked, b_results, b_context, b_messages>>
    /\ BotOnly

\* index.query and format_context (lines 47-53, 80)
B_Query ==
    /\ b_pc = "query"
    /\ \E ok \in BOOLEAN :
         IF ok
         THEN /\ b_results' = query_pinecone(b_vector.vector, b_index)
              /\ b_context' = format_context(b_results')
              /\ b_calls' = Append(b_calls, <<"query", "ok">>)
              /\ b_pc' = "complete"
              /\ UNCHANGED b_out
         ELSE /\ Fail("query", "query failed")
              /\ UNCHANGED <<b_results, b_context>>
    /\ UNCHANGED <<b_index, b_asked, b_vector, b_messages>>
    /\ BotOnly

\* openai.ChatCompletion.create and choices[0].message['content'].strip()
\* (lines 94-104)
B_Complete ==
    /\ b_pc = "complete"
    /\ \E answer \in {"ok", "error", "no choices"} :
         IF answer = "ok"
         THEN /\ b_calls' = Append(b_calls, <<"complete", "ok">>)
              /\ b_out' = [raised |-> FALSE, text |-> <<"answer to ">> \o b_context]
              /\ b_pc' = "returned"
         ELSE Fail("complete", answer)
    /\ UNCHANGED <<b_index, b_asked, b_vector, b_results, b_context, b_messages>>
    /\ BotOnly

\* legacy_get_bot_response (lines 108-115)
B_Legacy ==
    /\ b_pc = "legacy"
    /\ \E ok \in BOOLEAN :
         /\ b_calls' = Append(b_calls, <<"legacy", IF ok THEN "ok" ELSE "failed">>)
         /\ b_out' = [raised |-> FALSE,
                      text |-> IF ok THEN <<"legacy answer">>
                               ELSE <<"Error: ", "request failed">>]
    /\ b_pc' = "returned"
    /\ UNCHANGED <<b_index, b_asked, b_vector, b_results, b_context, b_messages>>
    /\ BotOnly

\* st.write(resp) and the append to the history (lines 159-160); an exception
\* out of the response function ends the script run before either
B_Append ==
    /\ b_pc = "returned"
    /\ IF b_out.raised
       THEN /\ b_pc' = "crashed"
            /\ UNCHANGED b_messages
       ELSE /\ b_pc' = "idle"
            /\ b_messages' = Append(b_messages,
                                    [role |-> "assistant", content |-> b_out.text])
    /\ UNCHANGED <<b_index, b_asked, b_calls, b_vector, b_results, b_context, b_out>>
    /\ BotOnly

InitBot ==
    /\ IxIdle
    /\ EmbedIdle
    /\ ConvertIdle
    /\ AuthIdle
    /\ b_index \in SUBSET BotPool
    /\ b_pc = "closed"
    /\ b_asked = 0
    /\ b_calls = <<>>
    /\ b_vector = Raised
    /\ b_results = <<>>
    /\ b_context = <<>>
    /\ b_out = [raised |-> FALSE, text |-> <<>>]
    /\ b_messages = <<>>
    /\ MetaIdle
    /\ SheetIdle
    /\ FetchIdle
    /\ MainIdle
    /\ IdsIdle
    /\ ScrapeIdle
    /\ UiIdle

NextBot ==
    \/ B_Open
    \/ B_Input
    \/ B_Embed
    \/ B_Query
    \/ B_Complete
    \/ B_Legacy
    \/ B_Append

SpecBot == InitBot /\ [][NextBot]_vars

---------------------------------------------------------------------------
(* ingest_to_pinecone.extract_metadata over the keys a bucket can hold *)

\* directories between the first segment and the file name
MaxDirs == 2

MetaFirst == {"aacrao", "FCE Regulations TXT", "FCE Regulations", "misc"}

MetaDirNames == {"ASIA", "EUROPE"}

MetaFiles ==
    {<<"Nepal", ".", "txt">>, <<"Nepal", ".", "txt", ".", "txt">>,
     <<"Nepal", ".", "pdf">>, <<"notes", ".", "txt">>, <<>>}

\* a key as its segments: first segment, directories, file name (empty for a
\* folder marker); a file name alone is a key at the top of the bucket
MetaSegments ==
    {<<(<<first>>)>> \o dirs \o <<file>> :
        first \in MetaFirst,
        dirs \in UNION {[1..n -> {<<d>> : d \in MetaDirNames}] : n \in 0..MaxDirs},
        file \in MetaFiles}
    \cup {<<file>> : file \in MetaFiles \ {<<>>}}

\* '/'.join(segments)
RECURSIVE SlashJoin(_)
SlashJoin(segs) ==
    IF Len(segs) = 1 THEN segs[1]
    ELSE segs[1] \o <<"/">> \o SlashJoin(Tail(segs))

MetaOnly == UNCHANGED <<ixvars, embvars, convars, authvars, botvars, sheetvars, fetchvars, mainvars, idvars, scrapevars, uivars>>

\* the loop body of process_and_upsert for one key, up to the first entry
\* (lines 137-173)
M_Derive ==
    /\ m_pc = "start"
    /\ IF EndsWith(m_key, <<"/">>) \/ ~EndsWith(m_key, TxtSuffix)
       THEN /\ m_pc' = "skipped"
            /\ UNCHANGED <<m_meta, m_entry>>
       ELSE /\ m_pc' = "derived"
            /\ m_meta' = extract_metadata(m_key)
            /\ \E n \in 0..1 :
                 m_entry' = IndexEntry(m_key, n, <<"chunk">>, <<>>, m_meta', 2)
    /\ UNCHANGED <<m_segs, m_key>>
    /\ MetaOnly

InitMeta ==
    /\ IxIdle
    /\ EmbedIdle
    /\ ConvertIdle
    /\ AuthIdle
    /\ BotIdle
    /\ m_segs \in MetaSegments
    /\ m_key = SlashJoin(m_segs)
    /\ m_pc = "start"
    /\ m_meta = [source |-> <<>>]
    /\ m_entry = [id |-> <<>>]
    /\ SheetIdle
    /\ FetchIdle
    /\ MainIdle
    /\ IdsIdle
    /\ ScrapeIdle
    /\ UiIdle

NextMeta ==
    \/ M_Derive

SpecMeta == InitMeta /\ [][NextMeta]_vars

---------------------------------------------------------------------------
(* convert_excel_to_txt.main *)

MainOnly ==
    UNCHANGED <<embvars, convars, authvars, botvars, metavars, sheetvars,
                fetchvars, idvars,
                scrapevars, uivars>>

IxFrame ==
    UNCHANGED <<run, faults, kpos, metadata, chunks, i, vectors_to_upsert,
                result, store, upsertLog, embedOk, embedFail, fetched,
                getFailed, idsAfterFirst>>

\* the longest converted text main is run on, in chunks
ChunksM == 5

\* a clean-up that leaves the file where it is
CleanupNever(temp) == temp

\* `if os.path.exists(temp_path): os.unlink(temp_path)` (lines 206-207)
Cleanup(temp) == "absent"

\* tempfile.NamedTemporaryFile(suffix='.xlsx', delete=False) (lines 181-182)
XM_TempFile ==
    /\ x_pc = "start"
    /\ x_temp' = "present"
    /\ x_pc' = "download"
    /\ UNCHANGED <<x_log, x_exit, prog, pc, text_content>>
    /\ IxFrame /\ MainOnly

\* download_from_s3 (lines 186-188)
XM_Download ==
    /\ x_pc = "download"
    /\ \E ok \in BOOLEAN :
         /\ x_log' = Append(x_log, <<"download", ok>>)
         /\ x_pc' = IF ok THEN "convert" ELSE "finally"
         /\ x_exit' = IF ok THEN x_exit ELSE "return"
    /\ UNCHANGED <<x_temp, prog, pc, text_content>>
    /\ IxFrame /\ MainOnly

\* excel_to_text (lines 191-194): the text, as the chunks it will be split
\* into, or None
XM_Convert ==
    /\ x_pc = "convert"
    /\ \/ /\ x_log' = Append(x_log, <<"convert", FALSE>>)
          /\ x_pc' = "finally"
          /\ x_exit' = "return"
          /\ UNCHANGED text_content
       \/ /\ x_log' = Append(x_log, <<"convert", TRUE>>)
          /\ x_pc' = "upload"
          /\ text_content' \in {TextChunks(n) : n \in 1..ChunksM}
          /\ UNCHANGED x_exit
    /\ UNCHANGED <<x_temp, prog, pc>>
    /\ IxFrame /\ MainOnly

\* upload_to_s3 (lines 197-199)
XM_Upload ==
    /\ x_pc = "upload"
    /\ \E ok \in BOOLEAN :
         /\ x_log' = Append(x_log, <<"upload", ok>>)
         /\ x_pc' = IF ok THEN "index" ELSE "finally"
         /\ x_exit' = IF ok THEN x_exit ELSE "return"
    /\ UNCHANGED <<x_temp, prog, pc, text_content>>
    /\ IxFrame /\ MainOnly

\* process_and_index_text is called (line 202); its split_text is outside
\* any try and can raise
XM_Index ==
    /\ x_pc = "index"
    /\ \E raises \in BOOLEAN :
         IF raises
         THEN /\ x_log' = Append(x_log, <<"index", FALSE>>)
              /\ x_pc' = "finally"
              /\ x_exit' = "exception"
              /\ UNCHANGED <<prog, pc>>
         ELSE /\ x_log' = Append(x_log, <<"index", TRUE>>)
              /\ x_pc' = "indexing"
              /\ prog' = "excel"
              /\ pc' = StartPc("excel")
              /\ UNCHANGED x_exit
    /\ UNCHANGED <<x_temp, text_content>>
    /\ IxFrame /\ MainOnly

\* process_and_index_text has returned: main falls through to finally
XM_Return ==
    /\ x_pc = "indexing" /\ pc = "done"
    /\ x_pc' = "finally"
    /\ x_exit' = "return"
    /\ UNCHANGED <<x_temp, x_log, prog, pc, text_content>>
    /\ IxFrame /\ MainOnly

\* the finally clause (lines 204-207)
XM_Finally ==
    /\ x_pc = "finally"
    /\ x_temp' = IF x_temp = "present" THEN Cleanup(x_temp) ELSE x_temp
    /\ x_pc' = "exited"
    /\ UNCHANGED <<x_log, x_exit, prog, pc, text_content>>
    /\ IxFrame /\ MainOnly

InitMain ==
    /\ IxIdle
    /\ EmbedIdle
    /\ ConvertIdle
    /\ AuthIdle
    /\ BotIdle
    /\ MetaIdle
    /\ SheetIdle
    /\ FetchIdle
    /\ x_pc = "start"
    /\ x_temp = "absent"
    /\ x_log = <<>>
    /\ x_exit = "none"
    /\ IdsIdle
    /\ ScrapeIdle
    /\ UiIdle

NextMain ==
    \/ XM_TempFile
    \/ XM_Download
    \/ XM_Convert
    \/ XM_Upload
    \/ XM_Index
    \/ X_Start
    \/ X_EmbedChunk
    \/ X_Upsert
    \/ XM_Return
    \/ XM_Finally

SpecMain == InitMain /\ [][NextMain]_vars

---------------------------------------------------------------------------
(* chunk ids over the keys the bucket can hold *)

IdsOnly ==
    UNCHANGED <<ixvars, embvars, convars, authvars, botvars, metavars,
                sheetvars, fetchvars, mainvars,
                scrapevars, uivars>>

\* the most keys put into the bucket
MaxBucket == 3

\* the most chunks of one document
MaxDocChunks == 2

\* characters outside [a-zA-Z0-9_-]
UnsafeChars == {" ", ".", "/", "'"}

\* re.sub(r"[^a-zA-Z0-9_-]", "_", s)
Sanitize(s) == [j \in 1..Len(s) |-> IF s[j] \in UnsafeChars THEN "_" ELSE s[j]]

\* key = f"aacrao/{safe_region}/{safe_country}.txt"
ScraperKey(region, country) ==
    <<"aacrao", "/">> \o Sanitize(region) \o <<"/">> \o Sanitize(country)
        \o <<".", "txt">>

\* values of COUNTRY_TO_REGION, and the default
Regions == {<<"ASIA">>, <<"NORTH", " ", "AMERICA">>, <<"UNKNOWN">>}

\* link texts of the listing page
Countries == {<<"India">>, <<"Burkina", " ", "Faso">>, <<"Cote d", "'", "Ivoire">>}

\* text documents placed under the prefixes main lists next to 'aacrao/'
OperatorKeys ==
    {<<"FCE Regulations TXT", "/", "rules", ".", "txt">>,
     <<"FCE Regulations", "/", "state", "/", "board", "_", "rules", ".", "txt">>,
     <<"FCE Regulations", "/", "state", "_", "board", "/", "rules", ".", "txt">>}

\* an id that keeps the key as it is
ChunkIdKeepSlash(key, n) == key \o <<"_", ToString(n)>>

\* scrape_aacrao_edge.upload_to_s3: put_object under the sanitised key
D_Scrape ==
    /\ Cardinality(d_bucket) < MaxBucket
    /\ \E region \in Regions, country \in Countries :
         d_bucket' = d_bucket \cup {ScraperKey(region, country)}
    /\ UNCHANGED <<d_made, d_store>>
    /\ IdsOnly

\* a text document is placed under one of the FCE prefixes
D_Put ==
    /\ Cardinality(d_bucket) < MaxBucket
    /\ \E key \in OperatorKeys : d_bucket' = d_bucket \cup {key}
    /\ UNCHANGED <<d_made, d_store>>
    /\ IdsOnly

\* process_and_upsert over one .txt key: every chunk embedded and upserted
D_Ingest ==
    /\ \E key \in d_bucket, total \in 1..MaxDocChunks :
         /\ \A n \in 0..(MaxDocChunks - 1) : <<key, n>> \notin d_made
         /\ d_made' = d_made \cup {<<key, n>> : n \in 0..(total - 1)}
         /\ d_store' =
                LET new == {ChunkId(key, n) : n \in 0..(total - 1)}
                IN  [id \in new \cup DOMAIN d_store |->
                        IF id \in new
                        THEN LET n == CHOOSE x \in 0..(total - 1) :
                                          ChunkId(key, x) = id
                             IN  [source |-> key, chunk_index |-> n,
                                  total_chunks |-> total]
                        ELSE d_store[id]]
    /\ UNCHANGED d_bucket
    /\ IdsOnly

InitIds ==
    /\ IxIdle
    /\ EmbedIdle
    /\ ConvertIdle
    /\ AuthIdle
    /\ BotIdle
    /\ MetaIdle
    /\ SheetIdle
    /\ FetchIdle
    /\ MainIdle
    /\ IdsIdle
    /\ ScrapeIdle
    /\ UiIdle

NextIds ==
    \/ D_Scrape
    \/ D_Put
    \/ D_Ingest

SpecIds == InitIds /\ [][NextIds]_vars

---------------------------------------------------------------------------
(* scrape_aacrao_edge.main *)

ScrapeOnly ==
    UNCHANGED <<ixvars, embvars, convars, authvars, botvars, metavars,
                sheetvars, fetchvars, mainvars, idvars, uivars>>

\* the most country links on the listing page
MaxCountries == 4

\* the link text of the j-th country entry
CountryName(j) == "Country " \o ToString(j)

\* what fetch_soup and the parsing give for one country page
CountryPages ==
    {[raised |-> TRUE, paras |-> 0],
     [raised |-> FALSE, paras |-> 0],
     [raised |-> FALSE, paras |-> 2]}

\* scrape_country (lines 236-309): the header and the paragraphs, or ""
\* when anything raised
scrape_country(name, page) ==
    IF page.raised
    THEN <<>>
    ELSE <<"#", name, "Education System">>
             \o [j \in 1..page.paras |-> "paragraph"]

\* a loop body that counts a failed upload as nothing
ErrorCountAfterUploadLenient(success, e) == e

\* `if success: success_count += 1 else: error_count += 1` (lines 351-354)
ErrorCountAfterUpload(success, e) == IF success THEN e ELSE e + 1

\* parse_country_listing (line 335), or the exception main re-raises
K_List ==
    /\ k_pc = "start"
    /\ \/ /\ k_pc' = "raised"
          /\ UNCHANGED listings
       \/ /\ \E n \in 0..MaxCountries :
                listings' = [j \in 1..n |-> CountryName(j)]
          /\ k_pc' = "loop"
    /\ UNCHANGED <<k_log, success_count, error_count>>
    /\ ScrapeOnly

\* one pass of `for region, name, url in listings` (lines 341-367)
K_Country ==
    /\ k_pc = "loop"
    /\ Len(k_log) < Len(listings)
    /\ LET name == listings[Len(k_log) + 1]
       IN  \/ \* an exception inside the try, before any counting
              /\ k_log' = Append(k_log, [name |-> name, raised |-> TRUE,
                                          content |-> <<>>, upload |-> "none"])
              /\ error_count' = error_count + 1
              /\ UNCHANGED success_count
           \/ \E page \in CountryPages :
                LET content == scrape_country(name, page)
                IN  IF content = <<>>
                    THEN /\ k_log' = Append(k_log,
                                 [name |-> name, raised |-> FALSE,
                                  content |-> content, upload |-> "none"])
                         /\ error_count' = error_count + 1
                         /\ UNCHANGED success_count
                    ELSE \E success \in BOOLEAN :
                         /\ k_log' = Append(k_log,
                                 [name |-> name, raised |-> FALSE,
                                  content |-> content,
                                  upload |-> IF success THEN "True" ELSE "False"])
                         /\ success_count' =
                                IF success THEN success_count + 1
                                           ELSE success_count
                         /\ error_count' =
                                ErrorCountAfterUpload(success, error_count)
    /\ UNCHANGED <<listings, k_pc>>
    /\ ScrapeOnly

\* the loop is over (line 369)
K_Complete ==
    /\ k_pc = "loop"
    /\ Len(k_log) = Len(listings)
    /\ k_pc' = "done"
    /\ UNCHANGED <<listings, k_log, success_count, error_count>>
    /\ ScrapeOnly

InitScrape ==
    /\ IxIdle
    /\ EmbedIdle
    /\ ConvertIdle
    /\ AuthIdle
    /\ BotIdle
    /\ MetaIdle
    /\ SheetIdle
    /\ FetchIdle
    /\ MainIdle
    /\ IdsIdle
    /\ listings = <<>>
    /\ k_pc = "start"
    /\ k_log = <<>>
    /\ success_count = 0
    /\ error_count = 0
    /\ UiIdle

NextScrape ==
    \/ K_List
    \/ K_Country
    \/ K_Complete

SpecScrape == InitScrape /\ [][NextScrape]_vars

---------------------------------------------------------------------------
(* Streamlit/main.py: the session state of one browser session *)

UiOnly ==
    UNCHANGED <<ixvars, embvars, convars, authvars, botvars, metavars,
                sheetvars, fetchvars, mainvars, idvars, scrapevars>>

\* the most interactions of one session
MaxInteractions == 3

None == <<>>

\* what the text inputs can hold
TypedNames == {"", "alice", "bob"}

TypedPasswords == {"", "pw1"}

\* what requests.post(LOGIN_URL) can give: a response with a status and a
\* body that is a JSON object, another JSON value or no JSON, or an exception;
\* access_token is the object's entry, None when missing or null
LoginResponses ==
    {[raised |-> FALSE, status |-> 200, body |-> "object", access_token |-> t] :
        t \in {None, <<"">>, <<"tokenA">>, <<"tokenB">>}}
    \cup {[raised |-> FALSE, status |-> st, body |-> b, access_token |-> None] :
             st \in {200, 401, 500}, b \in {"list", "invalid"}}
    \cup {[raised |-> FALSE, status |-> 401, body |-> "object",
           access_token |-> None],
          [raised |-> FALSE, status |-> 401, body |-> "object",
           access_token |-> <<"tokenA">>],
          [raised |-> TRUE, status |-> 0, body |-> "invalid",
           access_token |-> None]}

\* what requests.post(REGISTER_URL) can give
SignupResponses ==
    {[raised |-> FALSE, status |-> 201, body |-> "object", access_token |-> None],
     [raised |-> FALSE, status |-> 400, body |-> "object", access_token |-> None],
     [raised |-> TRUE, status |-> 0, body |-> "invalid", access_token |-> None]}

\* no request was made
NoResponse ==
    [raised |-> FALSE, status |-> 0, body |-> "invalid", access_token |-> None]

SessionState == [logged_in |-> logged_in, access_token |-> access_token,
                 auth_username |-> auth_username]

\* a check that lets every value through
TokenUsableAlways(token) == TRUE

\* `if token:` (line 84)
TokenUsable(token) == token # None /\ token # <<"">>

\* login (lines 73-96): the session state it leaves
login(username, r) ==
    IF ~r.raised /\ r.status = 200 /\ r.body = "object"
          /\ TokenUsable(r.access_token)
    THEN [logged_in |-> TRUE, access_token |-> r.access_token,
          auth_username |-> <<username>>]
    ELSE SessionState

\* main (lines 120-133): the page a script run draws
PageFor(state) == IF ~state.logged_in THEN "auth" ELSE "landing"

\* the first script run of a session (lines 22-24, 120-122)
U_Open ==
    /\ u_page = "none"
    /\ u_page' = PageFor(SessionState)
    /\ UNCHANGED <<logged_in, access_token, auth_username, u_log>>
    /\ UiOnly

\* the Login button of auth_page (lines 107, 113-117), with the rerun of
\* line 88
U_Login ==
    /\ u_page = "auth"
    /\ Len(u_log) < MaxInteractions
    /\ \E username \in TypedNames, password \in TypedPasswords,
          r \in LoginResponses \cup {NoResponse} :
         LET sent == username # "" /\ password # ""
             after == IF sent THEN login(username, r) ELSE SessionState
         IN  /\ sent <=> r # NoResponse
             /\ logged_in' = after.logged_in
             /\ access_token' = after.access_token
             /\ auth_username' = after.auth_username
             /\ u_page' = PageFor(after)
             /\ u_log' = Append(u_log,
                    [kind |-> "login", sent |-> sent, username |-> username,
                     r |-> r, before |-> SessionState, after |-> after])
    /\ UiOnly

\* the Signup button of auth_page (lines 107-112, 58-71), email and
\* password filled in
U_Signup ==
    /\ u_page = "auth"
    /\ Len(u_log) < MaxInteractions
    /\ \E username \in TypedNames, r \in SignupResponses \cup {NoResponse} :
         /\ username # "" <=> r # NoResponse
         /\ u_log' = Append(u_log,
                [kind |-> "signup", sent |-> username # "",
                 username |-> username, r |-> r,
                 before |-> SessionState, after |-> SessionState])
    /\ UNCHANGED <<logged_in, access_token, auth_username, u_page>>
    /\ UiOnly

\* the Logout button of the sidebar (lines 125-129)
U_Logout ==
    /\ u_page = "landing"
    /\ Len(u_log) < MaxInteractions
    /\ LET after == [logged_in |-> FALSE, access_token |-> None,
                     auth_username |-> None]
       IN  /\ logged_in' = after.logged_in
           /\ access_token' = after.access_token
           /\ auth_username' = after.auth_username
           /\ u_page' = PageFor(after)
           /\ u_log' = Append(u_log,
                  [kind |-> "logout", sent |-> FALSE, username |-> "",
                   r |-> NoResponse,
                   before |-> SessionState, after |-> after])
    /\ UiOnly

\* an interaction inside landing.run() (lines 132-133)
U_Landing ==
    /\ u_page = "landing"
    /\ Len(u_log) < MaxInteractions
    /\ u_log' = Append(u_log,
           [kind |-> "landing", sent |-> FALSE, username |-> "",
            r |-> NoResponse,
            before |-> SessionState, after |-> SessionState])
    /\ u_page' = PageFor(SessionState)
    /\ UNCHANGED <<logged_in, access_token, auth_username>>
    /\ UiOnly

InitUi ==
    /\ IxIdle
    /\ EmbedIdle
    /\ ConvertIdle
    /\ AuthIdle
    /\ BotIdle
    /\ MetaIdle
    /\ SheetIdle
    /\ FetchIdle
    /\ MainIdle
    /\ IdsIdle
    /\ ScrapeIdle
    /\ logged_in = FALSE
    /\ access_token = None
    /\ auth_username = None
    /\ u_page = "none"
    /\ u_log = <<>>

NextUi ==
    \/ U_Open
    \/ U_Login
    \/ U_Signup
    \/ U_Logout
    \/ U_Landing

SpecUi == InitUi /\ [][NextUi]_vars

---------------------------------------------------------------------------
(* scrape_aacrao_edge.fetch_soup *)

\* def fetch_soup(url: str, retries=3)
retries == 3

\* the largest retries argument a call is made with
MaxRetries == 4

\* requests.exceptions.RequestException and its subclasses: a timeout, a
\* connection error, and the HTTPError of raise_for_status
RequestFailures == {"timeout", "connection", "http_status"}

\* what one iteration can meet: a page, a request failure, or an exception
\* of another class (from the parser)
FetchOutcomes == {"ok", "parser"} \cup RequestFailures

\* a loop that never takes an attempt for the last one
IsLastAttemptNever(attempt, n) == FALSE

\* `if attempt == retries - 1` (line 201)
IsLastAttempt(attempt, n) == attempt = n - 1

FetchOnly ==
    UNCHANGED <<ixvars, embvars, convars, authvars, botvars, metavars, sheetvars,
                mainvars, idvars,
                scrapevars, uivars>>

\* one iteration of `for attempt in range(retries)` (lines 190-204)
F_Attempt ==
    /\ f_pc = "loop" /\ f_attempt < f_retries
    /\ \E outcome \in FetchOutcomes :
         /\ f_log' = Append(f_log, [attempt |-> f_attempt, outcome |-> outcome])
         /\ IF outcome = "ok"
            THEN /\ f_pc' = "returned"
                 /\ f_out' = [kind |-> "page", value |-> f_attempt]
                 /\ UNCHANGED f_attempt
            ELSE IF outcome \notin RequestFailures \/ IsLastAttempt(f_attempt, f_retries)
            THEN /\ f_pc' = "raised"
                 /\ f_out' = [kind |-> outcome, value |-> f_attempt]
                 /\ UNCHANGED f_attempt
            ELSE /\ f_attempt' = f_attempt + 1
                 /\ UNCHANGED <<f_pc, f_out>>
    /\ UNCHANGED f_retries
    /\ FetchOnly

\* range(retries) is exhausted: the function falls off its end
F_LoopEnd ==
    /\ f_pc = "loop" /\ f_attempt >= f_retries
    /\ f_pc' = "returned"
    /\ f_out' = [kind |-> "None", value |-> 0]
    /\ UNCHANGED <<f_retries, f_attempt, f_log>>
    /\ FetchOnly

InitFetch ==
    /\ IxIdle
    /\ EmbedIdle
    /\ ConvertIdle
    /\ AuthIdle
    /\ BotIdle
    /\ MetaIdle
    /\ SheetIdle
    /\ f_retries \in 0..MaxRetries
    /\ f_attempt = 0
    /\ f_pc = "loop"
    /\ f_log = <<>>
    /\ f_out = [kind |-> "nothing", value |-> 0]
    /\ MainIdle
    /\ IdsIdle
    /\ ScrapeIdle
    /\ UiIdle

NextFetch ==
    \/ F_Attempt
    \/ F_LoopEnd

SpecFetch == InitFetch /\ [][NextFetch]_vars

---------------------------------------------------------------------------
(* Spreadsheet extraction: convert_s3_docs_to_txt.extract_text (xls/xlsx)  *)
(* and convert_excel_to_txt.excel_to_text                                  *)

\* sheets in a workbook, data rows in a sheet
MaxSheets == 2
MaxRows == 2

SheetColumns == <<"c1", "c2">>

\* the cells of sheet k: a value that names the sheet, or nothing
SheetCells(k) == {NaN, "v" \o ToString(k)}

SheetRows(k) ==
    UNION {[1..n -> [1..Len(SheetColumns) -> SheetCells(k)]] : n \in 0..MaxRows}

\* the workbooks of n sheets
RECURSIVE Workbooks(_)
Workbooks(n) ==
    IF n = 0 THEN {<<>>}
    ELSE {Append(w, Sheet("S" \o ToString(n), SheetColumns, rows)) :
              w \in Workbooks(n - 1), rows \in SheetRows(n)}

\* " | ".join(f"{col}: {value}" ...) for one row (lines 112-119)
RowText(columns, row) ==
    LET RECURSIVE Cells(_)
        Cells(j) ==
            IF j > Len(columns) THEN <<>>
            ELSE (IF j > 1 THEN <<" | ">> ELSE <<>>)
                     \o <<columns[j], ": ", IF row[j] = NaN THEN "" ELSE row[j]>>
                     \o Cells(j + 1)
    IN  Cells(1)

\* the lines appended for one sheet (lines 100-119), each ended by its "\n"
SheetText(sheet) ==
    LET RECURSIVE Rows(_)
        Rows(r) == IF r > Len(sheet.rows) THEN <<>>
                   ELSE <<"\n">> \o RowText(sheet.columns, sheet.rows[r])
                            \o Rows(r + 1)
    IN  <<"\n", "\n", "SHEET: ", sheet.name, "\n", "-*50", "\n", "COLUMNS: ">>
            \o Join(sheet.columns, " | ") \o <<"\n", "-*50">> \o Rows(1)

\* excel_to_text(excel_path): every sheet of xl.sheet_names; None when the
\* file cannot be read
excel_to_text(workbook, readable) ==
    LET RECURSIVE Body(_)
        Body(k) == IF k > Len(workbook) THEN <<>>
                   ELSE SheetText(workbook[k]) \o Body(k + 1)
    IN  IF ~readable THEN Extracted(FALSE, TRUE, <<>>)
        ELSE Extracted(FALSE, FALSE,
                       <<"FCE EQUIVALENCY DOCUMENT", "\n", "=*50">> \o Body(1))

\* the xls/xlsx branch of extract_text (lines 47-50)
extract_text_excel(workbook, readable) ==
    IF ~readable THEN Extracted(TRUE, FALSE, <<>>)
    ELSE Extracted(FALSE, FALSE, to_csv(read_excel(workbook)))

SheetOnly == UNCHANGED <<ixvars, embvars, convars, authvars, botvars, metavars, fetchvars, mainvars, idvars, scrapevars, uivars>>

S_ConvertS3 ==
    /\ s_pc = "start" /\ s_impl = "convert_s3_docs"
    /\ \E readable \in BOOLEAN : s_text' = extract_text_excel(s_workbook, readable)
    /\ s_pc' = "extracted"
    /\ UNCHANGED <<s_workbook, s_impl>>
    /\ SheetOnly

S_ConvertExcel ==
    /\ s_pc = "start" /\ s_impl = "convert_excel"
    /\ \E readable \in BOOLEAN : s_text' = excel_to_text(s_workbook, readable)
    /\ s_pc' = "extracted"
    /\ UNCHANGED <<s_workbook, s_impl>>
    /\ SheetOnly

InitSheets ==
    /\ IxIdle
    /\ EmbedIdle
    /\ ConvertIdle
    /\ AuthIdle
    /\ BotIdle
    /\ MetaIdle
    /\ s_workbook \in UNION {Workbooks(n) : n \in 1..MaxSheets}
    /\ s_impl \in {"convert_s3_docs", "convert_excel"}
    /\ s_pc = "start"
    /\ s_text = UnsupportedResult
    /\ FetchIdle
    /\ MainIdle
    /\ IdsIdle
    /\ ScrapeIdle
    /\ UiIdle

NextSheets ==
    \/ S_ConvertS3
    \/ S_ConvertExcel

SpecSheets == InitSheets /\ [][NextSheets]_vars

---------------------------------------------------------------------------
(* Vocabulary of the properties *)

KeyAt(k) == IF prog = "ingest" THEN keys[k] ELSE text_key

\* the split sequence of every document of the listing
DocSplit == [key \in {keys[k] : k \in 1..Len(keys)} |-> DocChunks(key)]

SplitOf(key) == IF prog = "ingest" THEN DocSplit[key] ELSE text_content

\* the id the data model gives chunk n of the document at key:
\* <sanitized source key>_<chunk_index>
ExpectedId(key, n) ==
    [j \in 1..Len(key) |-> IF key[j] = "/" THEN "_" ELSE key[j]]
        \o <<"_", ToString(n)>>

CallIds(j) == {upsertLog[j].ids[x] : x \in 1..Len(upsertLog[j].ids)}

OfferedIds == UNION {CallIds(j) : j \in DOMAIN upsertLog}

PendingIds == IdSet(vectors_to_upsert)

\* the loop has gone past chunk n of the document at position k
Passed(k, n) == k < kpos \/ (k = kpos /\ n < i)

\* every chunk the loop has gone past was handed to create_embedding
AllPassedAttempted ==
    \A k \in DOMAIN fetched : \A n \in 0..(fetched[k] - 1) :
        Passed(k, n) => <<k, n>> \in embedOk \cup embedFail

\* every embedded chunk is pending or was offered to index.upsert, and was
\* offered once the function has returned
AllEmbeddedOffered ==
    LET offered == OfferedIds
        known == offered \cup PendingIds
    IN  \A c \in embedOk :
            LET id == ExpectedId(KeyAt(c[1]), c[2])
            IN  /\ id \in known
                /\ pc = "done" => id \in offered

\* the loop over keys reached every text document of the listing
AllDocumentsReached ==
    (prog = "ingest" /\ pc = "done" /\ result = "True") =>
        \A k \in 1..Len(keys) :
            (EndsWith(keys[k], TxtSuffix) /\ ~ObjectEmpty(keys[k]))
                => k \in (DOMAIN fetched) \cup getFailed

RECURSIVE UpsertedUpTo(_)
UpsertedUpTo(j) ==
    IF j = 0 THEN 0
    ELSE UpsertedUpTo(j - 1)
         + (IF upsertLog[j].ok THEN Len(upsertLog[j].ids) ELSE 0)

\* vectors index.upsert accepted in this run
UpsertedCount == UpsertedUpTo(Len(upsertLog))

LoopCalls == {j \in DOMAIN upsertLog : upsertLog[j].phase = "loop"}

---------------------------------------------------------------------------
(* C1: in both indexer loops, a chunk whose create_embedding raised is in   *)
(* no batch sent to upsert and not in the pending batch, the exception does *)
(* not leave the loop, every chunk the loop has gone past was still handed  *)
(* to the embedder, every embedded chunk is offered for upsert, and every   *)
(* text document of the listing is still reached.                           *)
C1_EmbedFailureIsolated ==
    /\ pc # "raised"
    /\ \A c \in embedFail :
           ExpectedId(KeyAt(c[1]), c[2]) \notin OfferedIds \cup PendingIds
    /\ AllPassedAttempted
    /\ AllEmbeddedOffered
    /\ AllDocumentsReached

\* an ingestion has returned in which a chunk failed, a later chunk of the
\* same document and a chunk of a later document were embedded
C1_Witness ==
    /\ prog = "ingest" /\ pc = "done"
    /\ \E c \in embedFail :
           /\ \E c2 \in embedOk : c2[1] = c[1] /\ c2[2] > c[2]
           /\ \E c3 \in embedOk : c3[1] > c[1]
           /\ ExpectedId(KeyAt(c[1]), c[2] + 1) \in OfferedIds

(* C2: in process_and_upsert every index.upsert call made inside the loop   *)
(* carries exactly 100 entries, the call after the loop is the last one and *)
(* carries 1 to 99 entries, the pending batch holds fewer than 100 entries  *)
(* after each step, and what was embedded is always 100 per loop call plus  *)
(* the pending batch, the remainder being what the final call carries.      *)
C2_BatchesOfHundred ==
    prog = "ingest" =>
        /\ Len(vectors_to_upsert) < 100
        /\ \A j \in DOMAIN upsertLog :
               /\ upsertLog[j].phase = "loop" => Len(upsertLog[j].ids) = 100
               /\ upsertLog[j].phase = "final" =>
                      /\ Len(upsertLog[j].ids) \in 1..99
                      /\ j = Len(upsertLog)
                      /\ pc = "done"
                      /\ upsertLog[j].ids = Ids(vectors_to_upsert)
        /\ Cardinality(embedOk)
               = 100 * Cardinality(LoopCalls) + Len(vectors_to_upsert)
        /\ (pc = "done" /\ vectors_to_upsert # <<>>) =>
               upsertLog[Len(upsertLog)].phase = "final"

\* an ingestion has returned after a flush inside the loop and a final flush
C2_Witness ==
    /\ prog = "ingest" /\ pc = "done"
    /\ \E j \in DOMAIN upsertLog : upsertLog[j].phase = "loop"
    /\ \E j \in DOMAIN upsertLog : upsertLog[j].phase = "final"

(* C3: when index.upsert raises for a batch, nothing is raised out of       *)
(* process_and_upsert, no entry of the failed batch is in any other upsert  *)
(* call or stays pending, none of it is stored, and the loop goes on: later *)
(* chunks are embedded and later batches are offered.                       *)
C3_UpsertFailureDropped ==
    prog = "ingest" =>
        /\ pc # "raised"
        /\ \A j \in DOMAIN upsertLog :
               ~upsertLog[j].ok =>
                   /\ \A j2 \in DOMAIN upsertLog :
                          j2 # j => CallIds(j2) \cap CallIds(j) = {}
                   /\ upsertLog[j].phase = "loop" =>
                          PendingIds \cap CallIds(j) = {}
                   /\ run = 1 => (DOMAIN store) \cap CallIds(j) = {}
        /\ AllPassedAttempted
        /\ AllEmbeddedOffered
        /\ AllDocumentsReached

\* an ingestion has returned whose flush inside the loop failed and whose
\* final flush, of a chunk embedded after the failure, succeeded
C3_Witness ==
    /\ prog = "ingest" /\ pc = "done" /\ result = "True"
    /\ Len(upsertLog) = 2
    /\ ~upsertLog[1].ok /\ upsertLog[1].phase = "loop"
    /\ upsertLog[2].ok /\ upsertLog[2].phase = "final"

(* C4: while process_and_upsert runs again over the same keys, every call   *)
(* of both runs having succeeded, the vector store holds exactly the ids it *)
(* held when the first run returned: the second run adds none.              *)
C4_ReingestSameIds ==
    (prog = "ingest" /\ run >= 2 /\ faults = 0) =>
        DOMAIN store = idsAfterFirst

\* the second run has returned after upserting, both runs without a failure
C4_Witness ==
    /\ prog = "ingest" /\ run = 2 /\ faults = 0 /\ pc = "done"
    /\ idsAfterFirst # {}
    /\ \E j \in DOMAIN upsertLog : upsertLog[j].ok

EntryAsClaimed(id, meta) ==
    LET key == meta.source
        n == meta.chunk_index
        split == SplitOf(key)
    IN  /\ id = ExpectedId(key, n)
        /\ n \in 0..(Len(split) - 1)
        /\ meta.text = Take(split[n + 1], TextLimit)
        /\ meta.total_chunks = Len(split)

(* C5: every index entry, pending or stored, has the id <source key with    *)
(* '/' replaced by '_'>_<i>, where i is its metadata chunk_index and the    *)
(* 0-based position of its chunk in the full split sequence of the          *)
(* document, and total_chunks is the length of that sequence; failed        *)
(* embeddings of other chunks do not shift them.                            *)
C5_IdAndPosition ==
    /\ \A j \in 1..Len(vectors_to_upsert) :
           EntryAsClaimed(vectors_to_upsert[j].id, vectors_to_upsert[j].metadata)
    /\ \A id \in DOMAIN store : EntryAsClaimed(id, store[id].metadata)

\* an entry is stored for a chunk that follows a failed chunk of its document
C5_Witness ==
    \E c \in embedFail :
        /\ ExpectedId(KeyAt(c[1]), c[2] + 1) \in DOMAIN store
        /\ store[ExpectedId(KeyAt(c[1]), c[2] + 1)].metadata.chunk_index
               = c[2] + 1

\* Python's bool as the integer it equals
AsInt(r) == IF r = "True" THEN 1 ELSE 0

(* C8 as claimed: indexing returns the count of vectors upserted, and 0     *)
(* when no chunk was embedded.                                              *)
C8_ReturnsCount ==
    pc = "done" =>
        /\ AsInt(result) = UpsertedCount
        /\ embedOk = {} => AsInt(result) = 0

(* C8 as amended: the indexers return a boolean, not a count.               *)
(* process_and_index_text returns True exactly when index.upsert accepted   *)
(* at least one vector, and False, without raising and without calling      *)
(* upsert, when no chunk was embedded; process_and_upsert returns True once *)
(* its loop has run over all keys, whatever was upserted, and False only    *)
(* when the index does not exist.                                           *)
C8_ReturnsBoolean ==
    /\ pc # "raised"
    /\ pc = "done" =>
        /\ result \in {"True", "False"}
        /\ prog = "excel" =>
               /\ result = "True" <=> UpsertedCount > 0
               /\ embedOk = {} => (result = "False" /\ upsertLog = <<>>)
        /\ prog = "ingest" =>
               /\ result = "True" <=> kpos = Len(keys) + 1
               /\ result = "False" => (kpos = 0 /\ upsertLog = <<>>)

\* process_and_index_text has returned for a text none of whose chunks was
\* embedded
C8_Witness ==
    /\ prog = "excel" /\ pc = "done"
    /\ embedOk = {} /\ embedFail # {}
    /\ result = "False"

\* v has at least D components and the first D are all zero
ZeroHead(v) == Len(v) >= D /\ \A j \in 1..D : v[j] = 0

(* C6 as claimed: when the upstream vector's first 1024 components are all  *)
(* zero, create_embedding raises: it returns no vector computed by dividing *)
(* by the zero norm.                                                        *)
C6_ZeroVectorRaises ==
    (e_pc = "returned" /\ e_response.kind = "ok"
                       /\ ZeroHead(e_response.embedding))
        => e_out.raised

(* C7 as claimed: create_embedding fails or returns exactly D = 1024        *)
(* components, whatever the length of the upstream vector, and they are the *)
(* first 1024 upstream components in order, each over the same norm.        *)
C7_ExactlyDComponents ==
    (e_pc = "returned" /\ ~e_out.raised) =>
        /\ Len(e_out.vector) = 1024
        /\ \A j \in 1..Len(e_out.vector) :
               /\ e_out.vector[j][1] = e_response.embedding[j]
               /\ e_out.vector[j][2] = e_out.vector[1][2]

\* the key's extension, case-insensitively, is none of pdf, doc, docx, xls,
\* xlsx
UnsupportedKey(key) ==
    LET dot == LastIndex(key, ".")
        ext == [j \in 1..(Len(key) - dot) |-> LowerToken(key[dot + j])]
    IN  ext \notin {<<"pdf">>, <<"doc">>, <<"docx">>, <<"xls">>, <<"xlsx">>}

PutsFrom(k) == {j \in DOMAIN c_puts : c_puts[j].from = k}

\* the loop is where its log says: one outcome per key reached, only a
\* failure ends it early
LoopFollowsLog ==
    /\ c_pc = "loop" => c_pos = Len(c_log) + 1
    /\ c_pc = "done" => Len(c_log) = Len(c_listing)
    /\ c_pc = "crashed" =>
           /\ c_pos = Len(c_log)
           /\ c_log[c_pos] \in {"get_failed", "extract_failed", "put_failed"}

SawUsername(r) ==
    \E j \in 1..Len(a_reqs[r].seen) :
        a_reqs[r].seen[j].USERNAME = a_reqs[r].username

Created == {r \in DOMAIN a_reqs : a_reqs[r].status = 201}

(* C10: a register request answers 400 exactly when a row with its username *)
(* was in USERS when it looked, and then adds no row; otherwise it answers  *)
(* 201 and has added exactly one row: (username, email, keyed hash of the   *)
(* password). USERS holds the rows of the 201 requests and nothing else.    *)
C10_RegisterDuplicateOrInsert ==
    /\ \A r \in DOMAIN a_reqs :
           /\ a_reqs[r].status \in {0, 201, 400}
           /\ a_reqs[r].pc = "done" =>
                  /\ a_reqs[r].status # 0
                  /\ a_reqs[r].status = 400 <=> SawUsername(r)
           /\ a_reqs[r].status = 400 => a_reqs[r].row = 0
           /\ a_reqs[r].status = 201 =>
                  /\ a_reqs[r].row \in 1..Len(a_users)
                  /\ a_users[a_reqs[r].row] =
                         [USERNAME |-> a_reqs[r].username,
                          EMAIL |-> a_reqs[r].email,
                          HASHED_PASSWORD |->
                              <<"hmac-sha256", SECRET_KEY, a_reqs[r].password>>]
    /\ \A r1, r2 \in Created : r1 # r2 => a_reqs[r1].row # a_reqs[r2].row
    /\ Len(a_users) = Cardinality(Created)

\* one request was answered 201 and a later one for the same username 400
C10_Witness ==
    \E r1, r2 \in DOMAIN a_reqs :
        /\ a_reqs[r1].status = 201
        /\ a_reqs[r2].status = 400
        /\ a_reqs[r1].username = a_reqs[r2].username
        /\ Len(a_users) = 1

Logins == {r \in DOMAIN a_reqs : a_reqs[r].op = "login"}

Registered == {r \in DOMAIN a_reqs :
                  a_reqs[r].op = "register" /\ a_reqs[r].status = 201}

\* USERS held a row for the login's username with the hash of its password
\* when the login ran
RowWithHash(r) ==
    \E j \in 1..Len(a_reqs[r].seen) :
        /\ a_reqs[r].seen[j].USERNAME = a_reqs[r].username
        /\ a_reqs[r].seen[j].HASHED_PASSWORD =
               <<"hmac-sha256", SECRET_KEY, a_reqs[r].password>>

\* the token names the user and is signed with the service's key
BearerFor(tk, u) ==
    /\ tk.sig = <<"HS256", SECRET_KEY, tk.payload>>
    /\ "username" \in DOMAIN tk.payload
    /\ tk.payload["username"] = u

(* C11: a login answers with a token for its user exactly when USERS holds a *)
(* row with that username and the hash of that password, and answers 401    *)
(* without a token in every other case; after a successful register(u,e,p), *)
(* login(u,p) gets a token and login(u,p') with p' # p gets 401.            *)
C11_LoginTokenOr401 ==
    /\ \A r \in Logins :
           /\ a_reqs[r].status \in {200, 401}
           /\ a_reqs[r].status = 200 <=> RowWithHash(r)
           /\ a_reqs[r].status = 200 => BearerFor(a_reqs[r].token, a_reqs[r].username)
           /\ a_reqs[r].status = 401 => a_reqs[r].token = NoToken
    /\ \A g \in Registered, r \in Logins :
           (g < r /\ a_reqs[g].username = a_reqs[r].username) =>
               IF a_reqs[r].password = a_reqs[g].password
               THEN a_reqs[r].status = 200
               ELSE a_reqs[r].status = 401

Protecteds == {r \in DOMAIN a_reqs : a_reqs[r].op = "protected"}

SignatureValid(tk) == tk.sig = <<"HS256", SECRET_KEY, tk.payload>>

\* the token's expiry has passed when the request is handled
Expired(r) ==
    /\ "exp" \in DOMAIN a_reqs[r].token.payload
    /\ a_reqs[r].token.payload["exp"] <= a_reqs[r].at

NamesKnownUser(r) ==
    /\ "username" \in DOMAIN a_reqs[r].token.payload
    /\ \E j \in 1..Len(a_reqs[r].seen) :
           a_reqs[r].seen[j].USERNAME = a_reqs[r].token.payload["username"]

(* C12: the protected route greets only for a token with a valid signature, *)
(* less than 60 minutes old, naming a username present in USERS; an expired *)
(* token, an invalid token, a token without a username claim and a token    *)
(* naming an unknown user each get 401.                                     *)
C12_ProtectedGreetingOr401 ==
    \A r \in Protecteds :
        /\ a_reqs[r].status = 200 =>
               /\ SignatureValid(a_reqs[r].token)
               /\ ~Expired(r)
               /\ NamesKnownUser(r)
        /\ (~SignatureValid(a_reqs[r].token) \/ Expired(r) \/ ~NamesKnownUser(r))
               => a_reqs[r].status = 401

\* calls made to a stage for the current question
CallsTo(stage) == {j \in 1..Len(b_calls) : b_calls[j][1] = stage}

RagStages == {"embed", "query", "complete"}

\* an upstream call of get_rag_response failed for the current question
RagFailure ==
    \E j \in 1..Len(b_calls) :
        b_calls[j][1] \in RagStages /\ b_calls[j][2] = "failed"

(* C13: get_rag_response never raises; a failed embedding, a failed index   *)
(* query or a failed completion comes back as the inline error string, and  *)
(* show_bot appends that string to the history as the assistant's message.  *)
C13_FailuresBecomeText ==
    /\ ~b_out.raised
    /\ b_pc # "crashed"
    /\ (b_pc \in {"returned", "idle"} /\ RagFailure) =>
           /\ Len(b_out.text) = 2
           /\ b_out.text[1] = "Error generating response: "
    /\ b_pc \in {"embed", "query", "complete", "legacy", "returned"} =>
           Len(b_messages) = 2 * b_asked - 1
    /\ b_pc \in {"closed", "idle"} =>
           /\ Len(b_messages) = 2 * b_asked
           /\ b_asked > 0 =>
                  b_messages[Len(b_messages)] =
                      [role |-> "assistant", content |-> b_out.text]

\* the index query failed and its error text is the assistant's last message
C13_Witness ==
    /\ b_pc = "idle"
    /\ b_calls = <<(<<"embed", "ok">>), (<<"query", "failed">>)>>
    /\ b_messages[Len(b_messages)].role = "assistant"
    /\ b_messages[Len(b_messages)].content[1] = "Error generating response: "

(* C14: for one question the completion service is called at most once and *)
(* never again after a failure: exactly once when embedding and index query *)
(* succeeded, not at all when one of them failed, and only after both.      *)
C14_CompletionAtMostOnce ==
    /\ Cardinality(CallsTo("complete")) <= 1
    /\ \A j \in CallsTo("complete") :
           /\ j = 3
           /\ b_calls[1] = <<"embed", "ok">>
           /\ b_calls[2] = <<"query", "ok">>
    /\ (b_pc \in {"returned", "idle"} /\ CallsTo("embed") # {}) =>
           (Cardinality(CallsTo("complete")) = 1
                <=> (/\ <<"embed", "ok">> \in {b_calls[j] : j \in DOMAIN b_calls}
                     /\ <<"query", "ok">> \in {b_calls[j] : j \in DOMAIN b_calls}))
    /\ Cardinality(CallsTo("embed")) <= 1
    /\ Cardinality(CallsTo("query")) <= 1

\* the one completion call failed and the function returned
C14_Witness ==
    /\ b_pc = "returned"
    /\ b_calls = <<(<<"embed", "ok">>), (<<"query", "ok">>),
                   (<<"complete", "failed">>)>>

\* positions in the context string where a block starts
BlockStarts == {j \in 1..Len(b_context) : b_context[j] = "[Source: "}

\* where the n-th block starts
BlockStart(n) ==
    CHOOSE j \in BlockStarts : Cardinality({o \in BlockStarts : o < j}) = n - 1

QueryDone == <<"query", "ok">> \in {b_calls[j] : j \in DOMAIN b_calls}

(* C15: the retriever returns at most 5 matches: the top_k = 5 best entries *)
(* of the index (all of them when it holds fewer), best first, none dropped *)
(* for a low score; the context has exactly one block per match, in that    *)
(* order, showing the match's source and text.                              *)
C15_AtMostFiveInOrder ==
    /\ Len(b_results) <= 5
    /\ QueryDone =>
           /\ Len(b_results) = Min(5, Cardinality(b_index))
           /\ \A j \in 1..Len(b_results) : b_results[j] \in b_index
           /\ \A j, k \in 1..Len(b_results) :
                  j < k => b_results[j].score > b_results[k].score
           /\ \A m \in b_index :
                  (\A j \in 1..Len(b_results) : b_results[j] # m) =>
                      \A j \in 1..Len(b_results) : m.score < b_results[j].score
           /\ Cardinality(BlockStarts) = Len(b_results)
           /\ \A n \in 1..Len(b_results) :
                  LET at == BlockStart(n)
                      md == b_results[n].metadata
                  IN  /\ b_context[at + 1] =
                             (IF "source" \in DOMAIN md THEN md["source"]
                              ELSE "Unknown source")
                      /\ b_context[at + 3] =
                             (IF "text" \in DOMAIN md THEN md["text"] ELSE "")

\* the index holds seven entries and the five best came back
C15_Witness ==
    /\ Cardinality(b_index) = 7
    /\ QueryDone
    /\ Len(b_results) = 5
    /\ b_results[5].score = 40

\* the segment with every ".txt" taken out, told from the tokens' positions
DotTxtAt(seg, j) == j < Len(seg) /\ seg[j] = "." /\ seg[j + 1] = "txt"

KeptPositions(seg) ==
    {j \in 1..Len(seg) : ~DotTxtAt(seg, j) /\ ~(j > 1 /\ DotTxtAt(seg, j - 1))}

IsWithoutTxt(out, seg) ==
    /\ Len(out) = Cardinality(KeptPositions(seg))
    /\ \A j \in KeptPositions(seg) :
           out[Cardinality({k \in KeptPositions(seg) : k <= j})] = seg[j]

IsAacrao == Len(m_segs) >= 3 /\ m_segs[1] = <<"aacrao">>

IsRegulation ==
    /\ Len(m_segs) >= 2
    /\ m_segs[1] \in {<<"FCE Regulations TXT">>, <<"FCE Regulations">>}

\* the index entry carries the file's metadata unchanged
EntryCarries ==
    \A k \in DOMAIN m_meta :
        k \in DOMAIN m_entry.metadata /\ m_entry.metadata[k] = m_meta[k]

(* C16, as the statement has it: for aacrao/<region>/<country>.txt the      *)
(* entries carry source = key, region = <region>, country = <country>; for  *)
(* a key under an FCE prefix document_type = 'regulation', with category    *)
(* only from three segments on; any other key carries source alone.         *)
C16_PatternMetadata ==
    m_pc = "derived" =>
        /\ m_meta.source = m_key
        /\ EntryCarries
        /\ (Len(m_segs) = 3 /\ m_segs[1] = <<"aacrao">>) =>
               /\ m_meta.region = m_segs[2]
               /\ m_meta.country = SubSeq(m_segs[3], 1, Len(m_segs[3]) - 2)
        /\ IsRegulation =>
               /\ m_meta.document_type = "regulation"
               /\ "category" \in DOMAIN m_meta <=> Len(m_segs) >= 3
        /\ (~(Len(m_segs) = 3 /\ m_segs[1] = <<"aacrao">>) /\ ~IsRegulation) =>
               DOMAIN m_meta = {"source"}

(* C16, as the code has it: source is always the key; a key under aacrao/   *)
(* with at least three segments carries region = its second segment and     *)
(* country = its third segment with every ".txt" taken out, whatever comes  *)
(* after; a key under an FCE prefix carries document_type = 'regulation'    *)
(* and category = its second segment only from three segments on; any       *)
(* other key carries source alone.                                          *)
C16_SegmentMetadata ==
    m_pc = "derived" =>
        /\ m_meta.source = m_key
        /\ EntryCarries
        /\ IsAacrao =>
               /\ DOMAIN m_meta = {"source", "region", "country"}
               /\ m_meta.region = m_segs[2]
               /\ IsWithoutTxt(m_meta.country, m_segs[3])
        /\ IsRegulation =>
               /\ m_meta.document_type = "regulation"
               /\ "category" \in DOMAIN m_meta <=> Len(m_segs) >= 3
               /\ "category" \in DOMAIN m_meta => m_meta.category = m_segs[2]
               /\ DOMAIN m_meta \subseteq {"source", "document_type", "category"}
        /\ (~IsAacrao /\ ~IsRegulation) => DOMAIN m_meta = {"source"}

\* an entry of aacrao/ASIA/Nepal.txt with its region and country
C16_Witness ==
    /\ m_pc = "derived"
    /\ m_segs = <<(<<"aacrao">>), (<<"ASIA">>), (<<"Nepal", ".", "txt">>)>>
    /\ m_entry.metadata.region = <<"ASIA">>
    /\ m_entry.metadata.country = <<"Nepal">>

\* the cells of every row of every sheet, in sheet and row order, a missing
\* cell as the empty string
RECURSIVE CellsInOrder(_, _, _)
CellsInOrder(workbook, k, r) ==
    IF k > Len(workbook) THEN <<>>
    ELSE IF r > Len(workbook[k].rows) THEN CellsInOrder(workbook, k + 1, 1)
    ELSE [j \in 1..Len(workbook[k].rows[r]) |->
             IF workbook[k].rows[r][j] = "NaN" THEN "" ELSE workbook[k].rows[r][j]]
         \o CellsInOrder(workbook, k, r + 1)

\* want occurs in text as a subsequence
RECURSIVE IsSubsequence(_, _)
IsSubsequence(want, text) ==
    IF want = <<>> THEN TRUE
    ELSE IF text = <<>> THEN FALSE
    ELSE IF want[1] = text[1] THEN IsSubsequence(Tail(want), Tail(text))
    ELSE IsSubsequence(want, Tail(text))

(* C17: the text extracted from a workbook with n sheets contains the rows  *)
(* of all n sheets, in sheet order, with missing cells as empty strings.    *)
C17_EverySheetExtracted ==
    (s_pc = "extracted" /\ ~s_text.raised /\ ~s_text.none) =>
        IsSubsequence(CellsInOrder(s_workbook, 1, 1), s_text.text)

\* the ingestion loop stands at a folder marker or at a key without .txt
AtSkippedKey ==
    /\ prog = "ingest" /\ pc = "keys" /\ kpos <= Len(keys)
    /\ \/ keys[kpos][Len(keys[kpos])] = "/"
       \/ Len(keys[kpos]) < 2
       \/ keys[kpos][Len(keys[kpos])] # "txt"
       \/ keys[kpos][Len(keys[kpos]) - 1] # "."

\* the conversion loop stands at a folder marker
AtFolderMarker ==
    /\ c_pc = "loop" /\ c_pos <= Len(c_listing)
    /\ c_listing[c_pos][Len(c_listing[c_pos])] = "/"

(* C18: at a key ending in '/', and in ingestion at any key not ending in   *)
(* '.txt', the loop's step fetches no object, embeds nothing and upserts    *)
(* nothing (conversion: extracts and uploads nothing) and moves on to the   *)
(* next key.                                                                *)
C18_FolderMarkersSkipped ==
    [][/\ AtSkippedKey =>
              /\ kpos' = kpos + 1
              /\ pc' = "keys"
              /\ UNCHANGED <<fetched, getFailed, faults, embedOk, embedFail,
                             vectors_to_upsert, store, upsertLog>>
       /\ AtFolderMarker =>
              /\ c_pos' = c_pos + 1
              /\ c_pc' = "loop"
              /\ c_puts' = c_puts
              /\ c_log' = Append(c_log, "folder")]_vars

\* ingestion has passed the folder marker and the .pdf key with nothing
\* fetched for either, and has fetched the .txt key between them
C18_Witness ==
    /\ prog = "ingest" /\ pc = "keys" /\ kpos = 5
    /\ keys[1] = <<"aacrao", "/">>
    /\ keys[4][Len(keys[4])] = "pdf"
    /\ DOMAIN fetched = {2}
    /\ getFailed = {}

IsRequestFailure(o) == o \in {"timeout", "connection", "http_status"}

(* C20: fetch_soup(url, retries=3) makes at most 3 HTTP attempts and is     *)
(* finished once the 3rd has failed; it returns the page of the first       *)
(* attempt that succeeds and attempts nothing after it, goes on to another  *)
(* attempt only after a request failure, raises the error of the 3rd        *)
(* attempt when that fails too, and never returns without a page.           *)
C20_AtMostThreeAttempts ==
    f_retries = retries =>
        /\ Len(f_log) <= 3
        /\ (f_pc = "loop" => Len(f_log) < 3)
        /\ \A j \in 1..Len(f_log) :
               /\ f_log[j].attempt = j - 1
               /\ j < Len(f_log) => IsRequestFailure(f_log[j].outcome)
        /\ f_pc = "returned" =>
               /\ f_out.kind = "page"
               /\ Len(f_log) >= 1
               /\ f_log[Len(f_log)].outcome = "ok"
               /\ f_out.value = Len(f_log) - 1
        /\ f_pc = "raised" =>
               /\ Len(f_log) >= 1
               /\ f_log[Len(f_log)].outcome # "ok"
               /\ f_out = [kind |-> f_log[Len(f_log)].outcome,
                           value |-> Len(f_log) - 1]
               /\ IsRequestFailure(f_out.kind) => Len(f_log) = 3
        /\ (f_pc = "loop" /\ Len(f_log) >= 1) =>
               IsRequestFailure(f_log[Len(f_log)].outcome)

\* three request failures in a row: the third one's error was raised
C20_Witness ==
    /\ f_retries = retries
    /\ f_pc = "raised"
    /\ Len(f_log) = 3
    /\ f_out = [kind |-> "timeout", value |-> 2]
    /\ f_log[1].outcome = "connection"

\* the ids of every index.upsert call of this run, in call order
RECURSIVE OfferedInOrder(_)
OfferedInOrder(j) ==
    IF j = 0 THEN <<>> ELSE OfferedInOrder(j - 1) \o upsertLog[j].ids

\* the ids of the embedded chunks of the document at position k, in chunk
\* order
DocEmbeddedIds(k) ==
    IF k \notin DOMAIN fetched THEN <<>>
    ELSE LET done == SelectSeq([n \in 1..fetched[k] |-> n - 1],
                               LAMBDA n : <<k, n>> \in embedOk)
         IN  [j \in 1..Len(done) |-> ExpectedId(keys[k], done[j])]

\* the ids of the embedded chunks of the documents from position k on, in
\* document and chunk order
RECURSIVE EmbeddedInOrder(_)
EmbeddedInOrder(k) ==
    IF k > Len(keys) THEN <<>>
    ELSE DocEmbeddedIds(k) \o EmbeddedInOrder(k + 1)

(* C21: when process_and_upsert has returned True, the batches handed to    *)
(* index.upsert, laid end to end, are exactly the embedded chunks in        *)
(* document and chunk order: each embedded chunk is in one batch, none is   *)
(* left out and none is handed over twice, whichever embeddings and         *)
(* upserts failed; a batch can hold chunks of more than one document.       *)
C21_EachEmbeddedChunkOnce ==
    (prog = "ingest" /\ pc = "done" /\ result = "True") =>
        OfferedInOrder(Len(upsertLog)) = EmbeddedInOrder(1)

\* a returned run whose first batch of 100 holds chunks of two documents and
\* in which one upsert call failed
C21_Witness ==
    /\ prog = "ingest" /\ pc = "done" /\ result = "True"
    /\ Len(upsertLog) = 2
    /\ upsertLog[1].ids[1][3] # upsertLog[1].ids[100][3]
    /\ \E j \in DOMAIN upsertLog : ~upsertLog[j].ok

MainSteps == <<"download", "convert", "upload", "index">>

\* embedding or upserting has begun
IndexingBegun ==
    \/ prog = "excel"
    \/ embedOk \cup embedFail # {}
    \/ upsertLog # <<>>

(* C22: convert_excel_to_txt.main runs download, convert, upload, index in  *)
(* that order and nothing after a step that failed; it uploads only after   *)
(* download and conversion succeeded, embeds and upserts only after the     *)
(* upload succeeded, and has removed the temporary file however it is left. *)
C22_StepsInOrderThenCleanup ==
    /\ Len(x_log) <= 4
    /\ \A j \in 1..Len(x_log) :
           /\ x_log[j][1] = MainSteps[j]
           /\ j < Len(x_log) => x_log[j][2]
    /\ IndexingBegun =>
           /\ Len(x_log) = 4
           /\ x_log[3] = <<"upload", TRUE>>
           /\ x_log[4][2]
    /\ x_pc = "exited" =>
           /\ x_temp = "absent"
           /\ x_exit \in {"return", "exception"}
           /\ x_exit = "exception" <=> x_log[Len(x_log)] = <<"index", FALSE>>

\* main was left after the upload failed: nothing indexed, the file removed
C22_Witness ==
    /\ x_pc = "exited"
    /\ x_log = <<(<<"download", TRUE>>), (<<"convert", TRUE>>),
                 (<<"upload", FALSE>>)>>
    /\ x_temp = "absent"
    /\ ~IndexingBegun

(* C23: under any interleaving of register requests USERS never holds two   *)
(* rows with the same username, and of the register requests for one        *)
(* username at most one is answered 201.                                    *)
C23_UsernamesUnique ==
    /\ \A j, k \in DOMAIN a_users :
           a_users[j].USERNAME = a_users[k].USERNAME => j = k
    /\ \A r1, r2 \in Created :
           a_reqs[r1].username = a_reqs[r2].username => r1 = r2

(* C24: index entries made from different (source key, chunk index) pairs   *)
(* never receive the same id, so every entry made is still in the index     *)
(* under its id, not overwritten by the entry of another document.          *)
C24_ChunkIdsUnique ==
    /\ \A p, q \in d_made :
           ChunkId(p[1], p[2]) = ChunkId(q[1], q[2]) => p = q
    /\ \A p \in d_made :
           /\ ChunkId(p[1], p[2]) \in DOMAIN d_store
           /\ d_store[ChunkId(p[1], p[2])].source = p[1]
           /\ d_store[ChunkId(p[1], p[2])].chunk_index = p[2]

\* the countries so far with non-empty content and an upload that
\* returned True
Succeeded ==
    {j \in DOMAIN k_log : k_log[j].content # <<>> /\ k_log[j].upload = "True"}

(* C25: after k passes of the scraper's loop success_count + error_count =  *)
(* k, success_count is the number of countries with non-empty content and   *)
(* an upload that returned True, the passes took the listed countries in    *)
(* order, and the loop ends only after every listed country had its pass,   *)
(* whatever failed before.                                                  *)
C25_EveryCountryCountedOnce ==
    /\ success_count + error_count = Len(k_log)
    /\ success_count = Cardinality(Succeeded)
    /\ Len(k_log) <= Len(listings)
    /\ \A j \in DOMAIN k_log : k_log[j].name = listings[j]
    /\ k_pc = "done" => Len(k_log) = Len(listings)

\* a run over four countries: an exception, an empty page, a failed upload,
\* and then a success
C25_Witness ==
    /\ k_pc = "done"
    /\ Len(k_log) = 4
    /\ k_log[1].raised
    /\ ~k_log[2].raised /\ k_log[2].content = <<>>
    /\ k_log[3].upload = "False"
    /\ k_log[4].upload = "True"
    /\ success_count = 1 /\ error_count = 3

\* protected request q presented the token that login r issued
PresentsTokenOf(q, r) ==
    /\ r \in Logins /\ a_reqs[r].status = 200
    /\ q \in Protecteds /\ r < q
    /\ a_reqs[q].token = a_reqs[r].token

(* C26: a token issued by login for username u and presented to the         *)
(* protected route less than 60 minutes later, u's row being in USERS, is    *)
(* accepted and greeted with u's USERNAME; whenever a token issued for u is  *)
(* accepted, the greeting names u and nobody else.                           *)
C26_TokenIdentifiesItsUser ==
    \A r, q \in DOMAIN a_reqs :
        PresentsTokenOf(q, r) =>
            /\ (/\ a_reqs[q].at < a_reqs[r].at + TokenMinutes
                /\ \E j \in 1..Len(a_reqs[q].seen) :
                       a_reqs[q].seen[j].USERNAME = a_reqs[r].username)
                   => a_reqs[q].status = 200
            /\ a_reqs[q].status = 200 =>
                   a_reqs[q].greeting = a_reqs[r].username

\* a token presented half an hour after its login is greeted with the name
\* it was issued for
C26_Witness ==
    \E r, q \in DOMAIN a_reqs :
        /\ PresentsTokenOf(q, r)
        /\ a_reqs[q].at = a_reqs[r].at + TickMinutes
        /\ a_reqs[q].status = 200
        /\ a_reqs[q].greeting = a_reqs[r].username

LoggedOutState ==
    [logged_in |-> FALSE, access_token |-> None, auth_username |-> None]

\* a login that was sent and answered 200 with a non-empty access_token
GoodLogin(ev) ==
    /\ ev.kind = "login" /\ ev.sent
    /\ ~ev.r.raised /\ ev.r.status = 200 /\ ev.r.body = "object"
    /\ ev.r.access_token \notin {None, <<"">>}

(* C27: in the front end's session state logged_in is True exactly when      *)
(* access_token and auth_username are both set, and neither is set without   *)
(* the other; a login answered 200 with a non-empty token sets the three     *)
(* together, every other login or signup changes nothing, Logout resets the  *)
(* three, and the landing pages are drawn only while logged_in is True.      *)
C27_SessionStateConsistent ==
    /\ logged_in <=> (access_token # None /\ auth_username # None)
    /\ (access_token # None) <=> (auth_username # None)
    /\ u_page = "landing" => logged_in
    /\ u_page = "auth" => ~logged_in
    /\ \A j \in DOMAIN u_log :
           LET ev == u_log[j]
           IN  /\ GoodLogin(ev) =>
                      ev.after = [logged_in |-> TRUE,
                                  access_token |-> ev.r.access_token,
                                  auth_username |-> <<ev.username>>]
               /\ (ev.kind \in {"login", "signup"} /\ ~GoodLogin(ev)) =>
                      ev.after = ev.before
               /\ ev.kind = "logout" => ev.after = LoggedOutState
               /\ ev.kind = "landing" =>
                      ev.before.logged_in /\ ev.after = ev.before
               /\ ev.after.logged_in /\ ~ev.before.logged_in => GoodLogin(ev)

\* a failed login, then a successful one, then a logout
C27_Witness ==
    /\ Len(u_log) = 3
    /\ u_log[1].kind = "login" /\ u_log[1].sent /\ u_log[1].r.status = 401
    /\ GoodLogin(u_log[2]) /\ u_log[2].after.logged_in
    /\ u_log[3].kind = "logout"
    /\ ~logged_in /\ access_token = None /\ auth_username = None
    /\ u_page = "auth"

====
